---- MODULE Spec2Model ----
(***************************************************************************)
(* Model of the pattern-extraction engine (agent_tools/enhanced_extractor), *)
(* of the corpus tools built on it (agent_tools/output_create and           *)
(* output_check), of the mapping engine (mapping/mapping_engine) and of the *)
(* batch pipeline that runs them (user_tools/process_pipeline).            *)
(*                                                                         *)
(* Python values are tagged records: None, str (a sequence of one-char     *)
(* strings), int, float, bool, list.  A raised exception is a value tagged  *)
(* "raise".                                                                *)
(* A regular expression is kept as its syntax tree: a concatenation of     *)
(* items, each a fixed run of character classes that may be a capture      *)
(* group and may be optional ("(..)?").                                    *)
(***************************************************************************)
EXTENDS Integers, Sequences, FiniteSets, TLC

VARIABLES
    config,        \* EnhancedPdfExtractor.config: field name -> field config
    pdf_files,     \* the documents on disk: path -> text, or Unreadable
    _pdf_cache,    \* EnhancedPdfExtractor._pdf_cache: path -> text
    ret,           \* the last call made and what it gave
    map_config,    \* MappingEngine.config: the loaded mapping configuration
    raw_data,      \* the input file of process_file: field -> document -> value
    mapped_data,   \* process_file: the output being built
    stats,         \* process_file: total_fields, mapped_fields, errors
    pc,            \* process_file: where the run stands
    field_idx,     \* process_file: position of the field loop in raw_data.items()
    doc_idx,       \* process_file: position of the document loop in field_data.items()
    mapped_field,  \* process_file: the mapped documents of the current field
    output_file,   \* the output file of the run at hand, Null until written
    first_call,    \* the first _map_field call made on the engine, Null before it
    args,          \* process_pipeline.main: the command line options
    companies,     \* process_pipeline.main: get_available_companies()
    company_idx,   \* process_pipeline.main: position of the company loop
    success_count, \* process_pipeline.main: companies processed successfully
    step,          \* process_pipeline: where main and process_company stand
    data_dir,      \* data/02_output and data/03_mapped: company -> its two files
    stdout         \* what the pipeline has printed, as a sequence of events

extractorVars == <<config, pdf_files, _pdf_cache, ret>>
engineVars == <<map_config, raw_data, mapped_data, stats, pc, field_idx, doc_idx,
                mapped_field, output_file, first_call>>
pipelineVars == <<args, companies, company_idx, success_count, step, data_dir, stdout>>
vars == <<config, pdf_files, _pdf_cache, ret, map_config, raw_data, mapped_data, stats,
          pc, field_idx, doc_idx, mapped_field, output_file, first_call,
          args, companies, company_idx, success_count, step, data_dir, stdout>>

\* ------------------------------------------------------------------ bounds
MaxTextLen == 2
MaxPatterns == 2

\* ----------------------------------------------------------- python values
Null == [t |-> "null"]
Str(s) == [t |-> "str", s |-> s]
Num(n) == [t |-> "int", n |-> n]
List(l) == [t |-> "list", l |-> l]
Raise(e) == [t |-> "raise", exc |-> e]

IsRaise(v) == v.t = "raise"

\* Python truth value of a model value ("if value:", "if not value:")
Truthy(v) ==
    CASE v.t = "null" -> FALSE
      [] v.t = "str" -> v.s # <<>>
      [] v.t = "list" -> v.l # <<>>
      [] v.t = "int" -> v.n # 0
      [] v.t = "bool" -> v.b
      [] v.t = "float" -> v.m # 0
      [] v.t = "re" -> ~(v.ok /\ v.items = <<>>)
      [] v.t = "dict" -> v.keys # {}
      [] OTHER -> TRUE

\* "x = e" followed by the code Body that reads x
With(e, Body(_)) == Body(e)

\* dict.get(key, default) and "key in dict" on a record used as a dict
Has(d, key) == key \in DOMAIN d
Get(d, key, default) == IF key \in DOMAIN d THEN d[key] ELSE default

\* -------------------------------------------------------------- characters
Whitespace == {" ", "\n"}
Letters == {"a", "b", "A", "B"}
AnyChar == Letters \cup Whitespace

\* str.lower() on one character
UpperLetters == <<"A", "B", "C", "D", "E", "F", "G", "H", "I", "J", "K", "L", "M",
                  "N", "O", "P", "Q", "R", "S", "T", "U", "V", "W", "X", "Y", "Z">>
LowerLetters == <<"a", "b", "c", "d", "e", "f", "g", "h", "i", "j", "k", "l", "m",
                  "n", "o", "p", "q", "r", "s", "t", "u", "v", "w", "x", "y", "z">>
Lower(c) ==
    With({i \in 1..26 : UpperLetters[i] = c},
         LAMBDA up : IF up = {} THEN c ELSE LowerLetters[CHOOSE i \in up : TRUE])

RECURSIVE LStrip(_)
LStrip(s) == IF s # <<>> /\ Head(s) \in Whitespace THEN LStrip(Tail(s)) ELSE s

RECURSIVE RStrip(_)
RStrip(s) ==
    IF s # <<>> /\ s[Len(s)] \in Whitespace THEN RStrip(SubSeq(s, 1, Len(s) - 1)) ELSE s

\* str.strip()
Strip(s) == RStrip(LStrip(s))

\* ------------------------------------------------------------------- regex
\* a pattern string: ok = it compiles; items = its syntax tree
Re(ok, items) == [t |-> "re", ok |-> ok, items |-> items]
Item(cls, cap, opt) == [cls |-> cls, cap |-> cap, opt |-> opt, rep |-> FALSE]
\* an item that is one character class repeated, greedily, once or more: "(c+)"
ItemRep(c, cap, opt) == [cls |-> <<c>>, cap |-> cap, opt |-> opt, rep |-> TRUE]

\* one character against one character class, under re.IGNORECASE or not
ClsMatch(cls, c, ic) == IF ic THEN \E d \in cls : Lower(d) = Lower(c) ELSE c \in cls

\* how many characters from position i on are in the class
RECURSIVE RunLen(_, _, _, _)
RunLen(cls, text, i, ic) ==
    IF i <= Len(text) /\ ClsMatch(cls, text[i], ic) THEN 1 + RunLen(cls, text, i + 1, ic) ELSE 0

\* All the ways items[k..] match text from position i, in the order the
\* backtracking matcher tries them: a repeated class is tried longest first,
\* an optional item is tried present first.
RECURSIVE ConcatAll(_)
ConcatAll(ss) == IF ss = <<>> THEN <<>> ELSE Head(ss) \o ConcatAll(Tail(ss))

\* the ways item k can be matched at position i, in the order the backtracking
\* matcher tries them: where the rest of the pattern starts, and the groups
ItemAlts(items, k, text, i, gs, ic) ==
    LET it == items[k]
        n == Len(it.cls)
        with(m) == IF it.cap THEN Append(gs, Str(SubSeq(text, i, i + m - 1))) ELSE gs
        take == IF it.rep
                THEN With(RunLen(it.cls[1], text, i, ic),
                          LAMBDA run : [j \in 1..run |->
                                           [i |-> i + (run - j + 1), gs |-> with(run - j + 1)]])
                ELSE IF /\ i + n - 1 <= Len(text)
                        /\ \A j \in 1..n : ClsMatch(it.cls[j], text[i + j - 1], ic)
                THEN << [i |-> i + n, gs |-> with(n)] >>
                ELSE <<>>
        skip == IF it.opt
                THEN << [i |-> i, gs |-> IF it.cap THEN Append(gs, Null) ELSE gs] >>
                ELSE <<>>
    IN take \o skip

RECURSIVE Cands(_, _, _, _, _, _)
Cands(items, k, text, i, gs, ic) ==
    IF k > Len(items) THEN << [end |-> i, groups |-> gs] >>
    ELSE With(ItemAlts(items, k, text, i, gs, ic),
              LAMBDA alts : ConcatAll([a \in DOMAIN alts |->
                               Cands(items, k + 1, text, alts[a].i, alts[a].gs, ic)]))

NoMatch == [t |-> "nomatch"]

\* the match object: span [start, end) and the capture groups
Match(text, s, c) ==
    [t |-> "match", start |-> s, end |-> c.end,
     group0 |-> SubSeq(text, s, c.end - 1), groups |-> c.groups]

\* the first match at or after pos; must_advance forbids an empty match at pos
RECURSIVE SearchFrom(_, _, _, _, _)
SearchFrom(items, text, pos, must_advance, ic) ==
    IF pos > Len(text) + 1 THEN NoMatch
    ELSE With(SelectSeq(Cands(items, 1, text, pos, <<>>, ic),
                        LAMBDA c : ~must_advance \/ c.end > pos),
              LAMBDA good : IF good # <<>> THEN Match(text, pos, good[1])
                            ELSE SearchFrom(items, text, pos + 1, FALSE, ic))

\* re.search(pattern, text, flags)
re_search(pattern, text, ic) ==
    IF ~pattern.ok THEN Raise("re.error")
    ELSE SearchFrom(pattern.items, text, 1, FALSE, ic)

\* list(re.finditer(pattern, text, flags)) for a pattern that compiles
RECURSIVE FindAllFrom(_, _, _, _, _)
FindAllFrom(items, text, pos, must_advance, ic) ==
    With(SearchFrom(items, text, pos, must_advance, ic),
         LAMBDA m : IF m = NoMatch THEN <<>>
                    ELSE <<m>> \o FindAllFrom(items, text, m.end, m.end = m.start, ic))

re_finditer(pattern, text, ic) ==
    IF ~pattern.ok THEN Raise("re.error")
    ELSE List(FindAllFrom(pattern.items, text, 1, FALSE, ic))

\* len(match.groups())
NumGroups(m) == Len(m.groups)

\* match.group(n): IndexError for an index that names no group
MatchGroup(m, n) ==
    IF n = 0 THEN Str(m.group0)
    ELSE IF n < 0 \/ n > Len(m.groups) THEN Raise("IndexError")
    ELSE m.groups[n]

\* ------------------------------------------------------ EnhancedPdfExtractor
GroupAll == Str(<<"a", "l", "l">>)
EmptyStr == Re(TRUE, <<>>)

\* isinstance(x, str) for a pattern-list entry; isinstance(group, int)
IsStrEntry(x) == Has(x, "t") /\ x.t = "re"
IsIntGroup(g) == g.t = "int"

\* extract_single_pattern without its "except re.error" clause
extract_single_pattern_uncaught(text, pattern, group) ==
    With(re_search(pattern, text, TRUE), LAMBDA match :
       IF IsRaise(match) THEN match
       ELSE IF match = NoMatch THEN Null
       ELSE IF group = Num(0) THEN Str(Strip(MatchGroup(match, 0).s))
       ELSE IF IsIntGroup(group) /\ group.n <= NumGroups(match)
            THEN LET value == MatchGroup(match, group.n)
                 IN IF IsRaise(value) THEN value
                    ELSE IF Truthy(value) THEN Str(Strip(value.s)) ELSE Null
       ELSE Null)

\* extract_single_pattern(text, pattern, group)
extract_single_pattern(text, pattern, group) ==
    With(re_search(pattern, text, TRUE), LAMBDA match :
       IF IsRaise(match) THEN Null                     \* except re.error
       ELSE IF match = NoMatch THEN Null
       ELSE IF group = Num(0) THEN Str(Strip(MatchGroup(match, 0).s))
       ELSE IF IsIntGroup(group) /\ group.n <= NumGroups(match)
            THEN LET value == MatchGroup(match, group.n)
                 IN IF IsRaise(value) THEN value       \* IndexError is not caught
                    ELSE IF Truthy(value) THEN Str(Strip(value.s)) ELSE Null
       ELSE Null)

\* the for loop of extract_all_matches over the matches ms[k..]
RECURSIVE all_matches_loop(_, _, _, _)
all_matches_loop(ms, k, group, results) ==
    IF k > Len(ms) THEN List(results)
    ELSE LET match == ms[k]
         IN IF group = Num(0)
            THEN LET value == Str(Strip(MatchGroup(match, 0).s))
                 IN all_matches_loop(ms, k + 1, group,
                        IF Truthy(value) THEN Append(results, value) ELSE results)
            ELSE IF IsIntGroup(group) /\ group.n <= NumGroups(match)
            THEN LET g == MatchGroup(match, group.n)
                     value == IF Truthy(g) THEN Str(Strip(g.s)) ELSE Null
                 IN IF IsRaise(g) THEN g               \* IndexError is not caught
                    ELSE all_matches_loop(ms, k + 1, group,
                            IF Truthy(value) THEN Append(results, value) ELSE results)
            ELSE all_matches_loop(ms, k + 1, group, results)    \* continue

\* extract_all_matches giving None when nothing survives
extract_all_matches_or_none(text, pattern, group) ==
    With(re_finditer(pattern, text, TRUE), LAMBDA matches :
       IF IsRaise(matches) THEN Null
       ELSE With(all_matches_loop(matches.l, 1, group, <<>>),
                 LAMBDA r : IF r = List(<<>>) THEN Null ELSE r))

\* extract_all_matches(text, pattern, group)
extract_all_matches(text, pattern, group) ==
    With(re_finditer(pattern, text, TRUE), LAMBDA matches :
       IF IsRaise(matches) THEN List(<<>>)             \* except re.error
       ELSE all_matches_loop(matches.l, 1, group, <<>>))

\* patterns_loop that keeps the last hit instead of the first
RECURSIVE patterns_loop_last(_, _, _, _)
patterns_loop_last(text, field_config, k, all_results) ==
    LET mode == Get(field_config, "mode", "first")
        done == IF mode = "all"
                THEN (IF all_results # <<>> THEN List(all_results) ELSE Null)
                ELSE (IF all_results # <<>> THEN all_results[Len(all_results)] ELSE Null)
    IN IF k > Len(field_config.patterns) THEN done
       ELSE LET pattern_config == field_config.patterns[k]
                pattern == IF IsStrEntry(pattern_config) THEN pattern_config
                           ELSE Get(pattern_config, "pattern", EmptyStr)
                group == IF IsStrEntry(pattern_config) THEN Num(1)
                         ELSE Get(pattern_config, "group", Num(1))
            IN IF ~Truthy(pattern)
               THEN patterns_loop_last(text, field_config, k + 1, all_results)
               ELSE IF mode = "all"
               THEN With(extract_all_matches(text, pattern, group), LAMBDA matches :
                       IF IsRaise(matches) THEN matches
                       ELSE patterns_loop_last(text, field_config, k + 1,
                                               all_results \o matches.l))
               ELSE With(extract_single_pattern(text, pattern, group), LAMBDA match :
                       IF IsRaise(match) THEN match
                       ELSE patterns_loop_last(text, field_config, k + 1,
                               IF Truthy(match) THEN Append(all_results, match)
                               ELSE all_results))

\* patterns_loop that puts each pattern's matches in front of the earlier ones
RECURSIVE patterns_loop_prepend(_, _, _, _)
patterns_loop_prepend(text, field_config, k, all_results) ==
    LET mode == Get(field_config, "mode", "first")
        done == IF mode = "all"
                THEN (IF all_results # <<>> THEN List(all_results) ELSE Null)
                ELSE (IF all_results # <<>> THEN all_results[1] ELSE Null)
    IN IF k > Len(field_config.patterns) THEN done
       ELSE LET pattern_config == field_config.patterns[k]
                pattern == IF IsStrEntry(pattern_config) THEN pattern_config
                           ELSE Get(pattern_config, "pattern", EmptyStr)
                group == IF IsStrEntry(pattern_config) THEN Num(1)
                         ELSE Get(pattern_config, "group", Num(1))
            IN IF ~Truthy(pattern)
               THEN patterns_loop_prepend(text, field_config, k + 1, all_results)
               ELSE IF mode = "all"
               THEN With(extract_all_matches(text, pattern, group), LAMBDA matches :
                       IF IsRaise(matches) THEN matches
                       ELSE patterns_loop_prepend(text, field_config, k + 1,
                                                  matches.l \o all_results))
               ELSE With(extract_single_pattern(text, pattern, group), LAMBDA match :
                       IF IsRaise(match) THEN match
                       ELSE IF Truthy(match)
                       THEN (IF mode = "first" THEN match
                             ELSE patterns_loop_prepend(text, field_config, k + 1,
                                                        Append(all_results, match)))
                       ELSE patterns_loop_prepend(text, field_config, k + 1, all_results))

\* the "for pattern_config in field_config['patterns']" loop of extract_field
\* from entry k on, and the return that follows it
RECURSIVE patterns_loop(_, _, _, _)
patterns_loop(text, field_config, k, all_results) ==
    LET mode == Get(field_config, "mode", "first")
        done == IF mode = "all"
                THEN (IF all_results # <<>> THEN List(all_results) ELSE Null)
                ELSE (IF all_results # <<>> THEN all_results[1] ELSE Null)
    IN IF k > Len(field_config.patterns) THEN done
       ELSE LET pattern_config == field_config.patterns[k]
                pattern == IF IsStrEntry(pattern_config) THEN pattern_config
                           ELSE Get(pattern_config, "pattern", EmptyStr)
                group == IF IsStrEntry(pattern_config) THEN Num(1)
                         ELSE Get(pattern_config, "group", Num(1))
            IN IF ~Truthy(pattern)
               THEN patterns_loop(text, field_config, k + 1, all_results)
               ELSE IF mode = "all"
               THEN With(extract_all_matches(text, pattern, group), LAMBDA matches :
                       IF IsRaise(matches) THEN matches
                       ELSE patterns_loop(text, field_config, k + 1,
                                          all_results \o matches.l))
               ELSE With(extract_single_pattern(text, pattern, group), LAMBDA match :
                       IF IsRaise(match) THEN match
                       ELSE IF Truthy(match)
                       THEN (IF mode = "first"
                             THEN (LET all_results1 == Append(all_results, match)
                                   IN all_results1[1])           \* break
                             ELSE patterns_loop(text, field_config, k + 1,
                                                Append(all_results, match)))
                       ELSE patterns_loop(text, field_config, k + 1, all_results))

\* extract_field once the document text is at hand (lines 92-137)
extract_from_text(text, field_config) ==
    IF Has(field_config, "pattern")
    THEN LET pattern == field_config.pattern
             group == Get(field_config, "group", Num(1))
         IN IF group = GroupAll THEN extract_all_matches(text, pattern, Num(0))
            ELSE extract_single_pattern(text, pattern, group)
    ELSE IF Has(field_config, "patterns")
    THEN patterns_loop(text, field_config, 1, <<>>)
    ELSE Null

\* a document fitz cannot open or read
Unreadable == [t |-> "unreadable"]

\* get_pdf_text with an except clause that caches an empty text and goes on
get_pdf_text_swallow(cache, files, pdf_path) ==
    IF pdf_path \notin DOMAIN cache
    THEN LET cache1 == [p \in DOMAIN cache \cup {pdf_path} |->
                           IF p # pdf_path THEN cache[p]
                           ELSE IF files[pdf_path] = Unreadable THEN <<>>
                           ELSE files[pdf_path].s]
         IN [cache |-> cache1, out |-> Str(cache1[pdf_path])]
    ELSE [cache |-> cache, out |-> Str(cache[pdf_path])]

\* get_pdf_text without the membership test of line 34
get_pdf_text_uncached(cache, files, pdf_path) ==
    IF files[pdf_path] = Unreadable
    THEN [cache |-> cache, out |-> Raise("RuntimeError")]
    ELSE LET cache1 == [p \in DOMAIN cache \cup {pdf_path} |->
                           IF p = pdf_path THEN files[pdf_path].s ELSE cache[p]]
         IN [cache |-> cache1, out |-> Str(cache1[pdf_path])]

\* get_pdf_text(pdf_path): the cache after the call and what the call gives
get_pdf_text(cache, files, pdf_path) ==
    IF pdf_path \notin DOMAIN cache
    THEN IF files[pdf_path] = Unreadable
         THEN [cache |-> cache, out |-> Raise("RuntimeError")]
         ELSE LET cache1 == [p \in DOMAIN cache \cup {pdf_path} |->
                                IF p = pdf_path THEN files[pdf_path].s ELSE cache[p]]
              IN [cache |-> cache1, out |-> Str(cache1[pdf_path])]
    ELSE [cache |-> cache, out |-> Str(cache[pdf_path])]

\* extract_field(pdf_path, field_name)
extract_field(cfg, cache, files, pdf_path, field_name) ==
    IF field_name \notin DOMAIN cfg THEN [cache |-> cache, out |-> Null]
    ELSE LET field_config == cfg[field_name]
         IN IF DOMAIN field_config = {} THEN [cache |-> cache, out |-> Null]
            ELSE With(get_pdf_text(cache, files, pdf_path), LAMBDA got :
                    IF IsRaise(got.out) THEN got
                    ELSE [cache |-> got.cache,
                          out |-> extract_from_text(got.out.s, field_config)])

\* self.config.keys(), in the order of the configuration file
FieldOrder == <<"f1", "f2">>
ConfigKeys(cfg) == SelectSeq(FieldOrder, LAMBDA f : f \in DOMAIN cfg)

\* extract_all_fields(pdf_path): the loop from key k on
RECURSIVE all_fields_loop(_, _, _, _, _, _)
all_fields_loop(cfg, cache, files, pdf_path, k, results) ==
    LET keys == ConfigKeys(cfg)
    IN IF k > Len(keys) THEN [cache |-> cache, out |-> [t |-> "dict", d |-> results]]
       ELSE With(extract_field(cfg, cache, files, pdf_path, keys[k]), LAMBDA r :
               IF IsRaise(r.out) THEN r
               ELSE all_fields_loop(cfg, r.cache, files, pdf_path, k + 1,
                        [f \in DOMAIN results \cup {keys[k]} |->
                            IF f = keys[k] THEN r.out ELSE results[f]]))

EmptyDict == [x \in {} |-> Null]

extract_all_fields(cfg, cache, files, pdf_path) ==
    all_fields_loop(cfg, cache, files, pdf_path, 1, EmptyDict)

\* ----------------------------------------------------------- the inputs
Paths == {"p1", "p2"}
FieldNames == {"f1", "f2"}
TextChars == {"a", "b", " "}

RECURSIVE SeqsUpTo(_, _)
SeqsUpTo(S, n) ==
    IF n = 0 THEN {<<>>}
    ELSE LET shorter == SeqsUpTo(S, n - 1)
         IN shorter \cup {Append(q, x) : q \in {r \in shorter : Len(r) = n - 1}, x \in S}

Texts == SeqsUpTo(TextChars, MaxTextLen)

P_a == Re(TRUE, <<Item(<<{"a"}>>, FALSE, FALSE)>>)                   \* a
P_capA == Re(TRUE, <<Item(<<{"A"}>>, TRUE, FALSE)>>)                 \* (A)
P_sb == Re(TRUE, <<Item(<<Whitespace, {"b"}>>, TRUE, FALSE)>>)       \* (\sb)
P_s == Re(TRUE, <<Item(<<Whitespace>>, TRUE, FALSE)>>)               \* (\s)
P_optA_b == Re(TRUE, <<Item(<<{"a"}>>, TRUE, TRUE),
                       Item(<<{"b"}>>, FALSE, FALSE)>>)              \* (a)?b
P_dot_b == Re(TRUE, <<Item(<<AnyChar>>, TRUE, FALSE),
                      Item(<<{"b"}>>, TRUE, TRUE)>>)                 \* (.)(b)?
P_optB == Re(TRUE, <<Item(<<{"b"}>>, TRUE, TRUE)>>)                  \* (b)?
P_ws_b_ws == Re(TRUE, <<Item(<<Whitespace>>, FALSE, TRUE),
                        Item(<<{"b"}>>, FALSE, FALSE),
                        Item(<<Whitespace>>, FALSE, TRUE)>>)         \* \s?b\s?
P_bad == Re(FALSE, <<>>)                                             \* (

SinglePatterns ==
    {P_a, P_capA, P_sb, P_s, P_optA_b, P_dot_b, P_optB, P_ws_b_ws, P_bad, EmptyStr}
Groups == {Num(-1), Num(0), Num(1), Num(2), GroupAll}

SingleConfigs ==
    {[pattern |-> p] : p \in SinglePatterns}
    \cup {[pattern |-> p, group |-> g] : p \in SinglePatterns, g \in Groups}

PatternEntries ==
    {P_capA, P_s, P_bad,
     [pattern |-> P_ws_b_ws, group |-> Num(0)],
     [pattern |-> P_a, group |-> GroupAll],
     [pattern |-> P_sb, group |-> Num(-1)],
     [group |-> Num(0)]}
Modes == {"first", "all", "any"}

MultiConfigs ==
    {[patterns |-> ps] : ps \in SeqsUpTo(PatternEntries, MaxPatterns)}
    \cup {[patterns |-> ps, mode |-> m] :
            ps \in SeqsUpTo(PatternEntries, MaxPatterns), m \in Modes}

FieldConfigs == SingleConfigs \cup MultiConfigs \cup {EmptyDict}

EmptyCache == [p \in {} |-> <<>>]

\* the pipeline has not been started
NoPipeline ==
    /\ args = [x \in {} |-> FALSE]
    /\ companies = <<>>
    /\ company_idx = 0
    /\ success_count = 0
    /\ step = "none"
    /\ data_dir = [x \in {} |-> FALSE]
    /\ stdout = <<>>

\* no mapping engine has been constructed
NoEngine ==
    /\ map_config = EmptyDict
    /\ raw_data = EmptyDict
    /\ mapped_data = EmptyDict
    /\ stats = EmptyDict
    /\ pc = "none"
    /\ field_idx = 0
    /\ doc_idx = 0
    /\ mapped_field = EmptyDict
    /\ output_file = Null
    /\ first_call = Null

\* one extractor, constructed over one configured field; one document is
\* readable, the other is not
InitExtract ==
    /\ config \in {[f \in {"f1"} |-> fc] : fc \in FieldConfigs}
    /\ pdf_files \in {[p \in Paths |-> IF p = "p1" THEN Str(txt) ELSE Unreadable] :
                        txt \in Texts}
    /\ _pdf_cache = EmptyCache
    /\ ret = [op |-> "none"]
    /\ NoEngine
    /\ NoPipeline

\* the field configs of the configurations with two fields: patterns that do
\* not compile, alone and in a pattern list, next to ones that do
PairedConfigs ==
    {[pattern |-> P_bad], [pattern |-> P_bad, group |-> GroupAll],
     [patterns |-> <<P_bad, P_capA>>], [patterns |-> <<P_bad, P_capA>>, mode |-> "all"],
     [pattern |-> P_capA], [pattern |-> P_ws_b_ws, group |-> Num(-1)], EmptyDict}
SecondText == Str(<<"a", " ">>)

\* one extractor, constructed over two configured fields and two documents
InitExtractor ==
    /\ config \in {[f \in FieldNames |-> IF f = "f1" THEN a ELSE b] :
                      a \in PairedConfigs, b \in PairedConfigs}
    /\ pdf_files \in {[p \in Paths |-> IF p = "p1" THEN Str(txt) ELSE second] :
                        txt \in Texts, second \in {Unreadable, SecondText}}
    /\ _pdf_cache = EmptyCache
    /\ ret = [op |-> "none"]
    /\ NoEngine
    /\ NoPipeline

\* a call returns: the cache it leaves and what it gives to the caller
Return(call, r) ==
    /\ _pdf_cache' = r.cache
    /\ ret' = [x \in DOMAIN call \cup {"out"} |-> IF x = "out" THEN r.out ELSE call[x]]
    /\ UNCHANGED pipelineVars
    /\ UNCHANGED <<config, pdf_files>>
    /\ UNCHANGED engineVars

GetPdfText(pdf_path) ==
    Return([op |-> "get_pdf_text", path |-> pdf_path],
           get_pdf_text(_pdf_cache, pdf_files, pdf_path))

ExtractField(pdf_path, field_name) ==
    Return([op |-> "extract_field", path |-> pdf_path, field |-> field_name],
           extract_field(config, _pdf_cache, pdf_files, pdf_path, field_name))

ExtractAllFields(pdf_path) ==
    Return([op |-> "extract_all_fields", path |-> pdf_path],
           extract_all_fields(config, _pdf_cache, pdf_files, pdf_path))

\* extract_field applied to the document and the config drawn by InitExtract
NextExtract == \E f \in FieldNames : ExtractField("p1", f)

SpecExtract == InitExtract /\ [][NextExtract]_vars

\* test_pattern_on_pdf(pdf_path, pattern, group)
test_pattern_on_pdf(cache, files, pdf_path, pattern, group) ==
    With(get_pdf_text(cache, files, pdf_path), LAMBDA got :
       IF IsRaise(got.out) THEN got
       ELSE [cache |-> got.cache, out |-> extract_all_matches(got.out.s, pattern, group)])

TestPatternOnPdf(pdf_path, pattern, group) ==
    Return([op |-> "test_pattern_on_pdf", path |-> pdf_path, pattern |-> pattern,
            group |-> group],
           test_pattern_on_pdf(_pdf_cache, pdf_files, pdf_path, pattern, group))

\* one extractor over a configuration without fields; one document is
\* readable, the other is not
InitAllMatches ==
    /\ config = EmptyDict
    /\ pdf_files \in {[p \in Paths |-> IF p = "p1" THEN Str(txt) ELSE Unreadable] :
                        txt \in Texts}
    /\ _pdf_cache = EmptyCache
    /\ ret = [op |-> "none"]
    /\ NoEngine
    /\ NoPipeline

\* a pattern is tried with a group on the readable document
NextAllMatches ==
    \E pattern \in SinglePatterns, group \in Groups : TestPatternOnPdf("p1", pattern, group)

SpecAllMatches == InitAllMatches /\ [][NextAllMatches]_vars

\* the calls a client makes on an extractor
NextExtractor ==
    \/ \E p \in Paths : GetPdfText(p)
    \/ \E p \in Paths, f \in FieldNames : ExtractField(p, f)
    \/ \E p \in Paths : ExtractAllFields(p)

SpecExtractor == InitExtractor /\ [][NextExtractor]_vars

\* the documents a path can hold on disk
DiskDocuments == {Unreadable, Str(<<"a">>), SecondText}

CacheConfigs ==
    {[pattern |-> P_a], [patterns |-> <<P_bad, P_capA>>, mode |-> "all"], EmptyDict}

\* one extractor, constructed over two configured fields; each path holds a
\* document that may or may not be readable
InitCache ==
    /\ config \in {[f \in FieldNames |-> IF f = "f1" THEN a ELSE b] :
                      a \in CacheConfigs, b \in CacheConfigs}
    /\ pdf_files \in [Paths -> DiskDocuments]
    /\ _pdf_cache = EmptyCache
    /\ ret = [op |-> "none"]
    /\ NoEngine
    /\ NoPipeline

\* between two calls the document at a path is replaced, repaired or damaged
\* on disk; no call result is pending afterwards
WriteDocument(pdf_path, doc) ==
    /\ pdf_files[pdf_path] # doc
    /\ pdf_files' = [pdf_files EXCEPT ![pdf_path] = doc]
    /\ ret' = [op |-> "none"]
    /\ UNCHANGED pipelineVars
    /\ UNCHANGED <<config, _pdf_cache>>
    /\ UNCHANGED engineVars

\* the calls a client makes on an extractor whose documents change on disk
NextCache ==
    \/ \E p \in Paths : GetPdfText(p)
    \/ \E p \in Paths, f \in FieldNames : ExtractField(p, f)
    \/ \E p \in Paths : ExtractAllFields(p)
    \/ \E p \in Paths, doc \in DiskDocuments : WriteDocument(p, doc)

SpecCache == InitCache /\ [][NextCache]_vars

\* ------------------------------------------------------------ MappingEngine
\* more of the python values and of str
Bool(b) == [t |-> "bool", b |-> b]
Float(m, k) == [t |-> "float", m |-> m, k |-> k]     \* the number m / 10^k
IsNum(v) == v.t \in {"int", "float"}

Digits == {"0", "1", "2", "3", "4", "5", "6", "7", "8", "9"}
DigitVal(c) ==
    CASE c = "0" -> 0 [] c = "1" -> 1 [] c = "2" -> 2 [] c = "3" -> 3 [] c = "4" -> 4
      [] c = "5" -> 5 [] c = "6" -> 6 [] c = "7" -> 7 [] c = "8" -> 8 [] c = "9" -> 9
DigitChar(d) == CHOOSE c \in Digits : DigitVal(c) = d

\* str.isdigit()
IsDigitStr(s) == s # <<>> /\ \A i \in DOMAIN s : s[i] \in Digits

\* int(s) for a string of digits
RECURSIVE DigitsToInt(_)
DigitsToInt(s) ==
    IF s = <<>> THEN 0 ELSE 10 * DigitsToInt(SubSeq(s, 1, Len(s) - 1)) + DigitVal(s[Len(s)])

\* str(n) for an int
RECURSIVE NatToStr(_)
NatToStr(n) == IF n < 10 THEN <<DigitChar(n)>> ELSE Append(NatToStr(n \div 10), DigitChar(n % 10))
IntToStr(n) == IF n < 0 THEN <<"-">> \o NatToStr(-n) ELSE NatToStr(n)

\* s.endswith(suffix), s.replace(c, d) for characters, c in s
EndsWith(s, suffix) ==
    Len(s) >= Len(suffix) /\ SubSeq(s, Len(s) - Len(suffix) + 1, Len(s)) = suffix
ReplaceChar(s, c, d) == [i \in DOMAIN s |-> IF s[i] = c THEN d ELSE s[i]]
RemoveChar(s, c) == SelectSeq(s, LAMBDA x : x # c)
Contains(s, c) == \E i \in DOMAIN s : s[i] = c

\* s.split(c)
RECURSIVE Split(_, _)
Split(s, c) ==
    IF ~Contains(s, c) THEN <<s>>
    ELSE LET i == CHOOSE i \in DOMAIN s : s[i] = c /\ \A j \in 1..(i - 1) : s[j] # c
         IN <<SubSeq(s, 1, i - 1)>> \o Split(SubSeq(s, i + 1, Len(s)), c)

\* s.rfind(c), counted from 0, -1 when c is not in s
RFind(s, c) ==
    IF ~Contains(s, c) THEN -1
    ELSE (CHOOSE i \in DOMAIN s : s[i] = c /\ \A j \in (i + 1)..Len(s) : s[j] # c) - 1

\* re.sub(r'\s+', ' ', s) and re.sub(r'\s+', '', s)
RECURSIVE CollapseWs(_)
CollapseWs(s) ==
    IF s = <<>> THEN <<>>
    ELSE IF Head(s) \in Whitespace
    THEN <<" ">> \o CollapseWs(LStrip(s))
    ELSE <<Head(s)>> \o CollapseWs(Tail(s))
RemoveWs(s) == SelectSeq(s, LAMBDA x : x \notin Whitespace)

\* re.search(re.escape(needle), hay, re.IGNORECASE) finds something
ISearch(needle, hay) ==
    \E i \in 0..(Len(hay) - Len(needle)) :
        \A j \in 1..Len(needle) : Lower(hay[i + j]) = Lower(needle[j])

\* repr(s) for a str without quotes and backslashes; str(value)
RECURSIVE ReprBody(_)
ReprBody(s) ==
    IF s = <<>> THEN <<>>
    ELSE (IF Head(s) = "\n" THEN <<"\\", "n">> ELSE <<Head(s)>>) \o ReprBody(Tail(s))
Repr(v) ==
    IF v.t = "str" THEN <<"'">> \o ReprBody(v.s) \o <<"'">>
    ELSE <<"N", "o", "n", "e">>
RECURSIVE ReprItems(_)
ReprItems(l) ==
    IF l = <<>> THEN <<>>
    ELSE IF Len(l) = 1 THEN Repr(l[1])
    ELSE Repr(l[1]) \o <<",", " ">> \o ReprItems(Tail(l))
PyStr(v) ==
    CASE v.t = "str" -> v.s
      [] v.t = "int" -> IntToStr(v.n)
      [] v.t = "list" -> <<"[">> \o ReprItems(v.l) \o <<"]">>
      [] OTHER -> <<"N", "o", "n", "e">>

\* a == b for python values: an int and a float that are the same number are equal
PyEq(a, b) ==
    IF a.t = "int" /\ b.t = "float" THEN b.k = 0 /\ b.m = a.n
    ELSE IF a.t = "float" /\ b.t = "int" THEN a.k = 0 /\ a.m = b.n
    ELSE a = b

NullStr == <<"n", "u", "l", "l">>

\* _format_turkish_amount that keeps a trailing ",00"
_format_turkish_amount_keep_zeros(value) ==
    IF ~Truthy(value) THEN Str(<<>>)
    ELSE Str(<<" ">> \o ReplaceChar(value.s, ".", ",") \o <<" ">>)

\* _format_turkish_amount(value)
_format_turkish_amount(value) ==
    IF ~Truthy(value) THEN Str(<<>>)
    ELSE LET v == value.s
             n == Len(v)
             cut == IF EndsWith(v, <<",", "0", "0">>) THEN SubSeq(v, 1, n - 3)
                    ELSE IF EndsWith(v, <<",", "0", "0", "\n">>)
                    THEN Append(SubSeq(v, 1, n - 4), "\n")      \* $ also matches before a final newline
                    ELSE v
         IN Str(<<" ">> \o ReplaceChar(cut, ".", ",") \o <<" ">>)

\* _format_simple_amount(value)
_format_simple_amount(value) ==
    IF ~Truthy(value) THEN Str(<<>>)
    ELSE Str(<<" ">> \o ReplaceChar(value.s, ".", ",") \o <<" ">>)

\* the two nested loops of _extract_from_array, from item i and pattern j on
RECURSIVE extract_loop(_, _, _, _, _)
extract_loop(data, patterns, i, j, extracted_values) ==
    IF i > Len(data) THEN List(extracted_values)
    ELSE IF j > Len(patterns) THEN extract_loop(data, patterns, i + 1, 1, extracted_values)
    ELSE LET item == data[i]
             pattern_config == patterns[j]
         IN IF ~Has(pattern_config, "pattern") THEN Raise("KeyError")
            ELSE IF item.t # "str" THEN Raise("TypeError")
            ELSE With(re_search(pattern_config.pattern, item.s, TRUE), LAMBDA match :
                    IF IsRaise(match) THEN match
                    ELSE IF match = NoMatch
                    THEN extract_loop(data, patterns, i, j + 1, extracted_values)
                    ELSE LET group == Get(pattern_config, "group", Num(0))
                             got == MatchGroup(match, IF group.n > 0 THEN group.n ELSE 0)
                         IN IF IsRaise(got) THEN got
                            ELSE extract_loop(data, patterns, i, j + 1,
                                              Append(extracted_values, got)))

\* _extract_from_array(data, patterns)
_extract_from_array(data, patterns) ==
    With(extract_loop(data, patterns, 1, 1, <<>>), LAMBDA r :
       IF IsRaise(r) THEN r
       ELSE LET extracted_values == r.l
                \* v.isdigit() on a None raises, and the bare except passes
                failed == \E k \in DOMAIN extracted_values : extracted_values[k] = Null
                numeric_values ==
                    {DigitsToInt(extracted_values[k].s) :
                        k \in {x \in DOMAIN extracted_values :
                                  IsDigitStr(extracted_values[x].s)}}
            IN IF extracted_values = <<>> THEN Null
               ELSE IF ~failed /\ numeric_values # {}
               THEN Str(IntToStr(CHOOSE n \in numeric_values : \A o \in numeric_values : o <= n))
               ELSE extracted_values[1])

\* field_config.get('mappings', [])
Mappings(field_config) == Get(field_config, "mappings", <<>>)

\* the rule loop for a None value that knows only a null input_pattern
RECURSIVE null_rule_loop_no_literal(_, _)
null_rule_loop_no_literal(field_config, k) ==
    LET mappings == Mappings(field_config)
    IN IF k > Len(mappings) THEN Get(field_config, "default", Null)
       ELSE LET input_pattern == Get(mappings[k], "input_pattern", Null)
            IN IF input_pattern = Null
               THEN (IF Has(mappings[k], "output") THEN mappings[k].output
                     ELSE Raise("KeyError"))
               ELSE null_rule_loop_no_literal(field_config, k + 1)

\* the rule loop of _apply_pattern_mapping for a None value
RECURSIVE null_rule_loop(_, _)
null_rule_loop(field_config, k) ==
    LET mappings == Mappings(field_config)
    IN IF k > Len(mappings) THEN Get(field_config, "default", Null)
       ELSE LET input_pattern == Get(mappings[k], "input_pattern", Null)
            IN IF input_pattern = Null \/ input_pattern = Str(NullStr)
               THEN (IF Has(mappings[k], "output") THEN mappings[k].output
                     ELSE Raise("KeyError"))
               ELSE null_rule_loop(field_config, k + 1)

\* the rule loop for a non-empty scalar without the whitespace-free test
RECURSIVE pattern_rule_loop_spaced(_, _, _)
pattern_rule_loop_spaced(value, field_config, k) ==
    LET mappings == Mappings(field_config)
        value_str == PyStr(value)
    IN IF k > Len(mappings) THEN Get(field_config, "default", value)
       ELSE IF ~Has(mappings[k], "input_pattern") THEN Raise("KeyError")
       ELSE LET pattern == mappings[k].input_pattern
            IN IF ~Truthy(pattern) THEN pattern_rule_loop_spaced(value, field_config, k + 1)
               ELSE IF pattern.t # "str" THEN Raise("AttributeError")
               ELSE IF ISearch(CollapseWs(Strip(pattern.s)), CollapseWs(Strip(value_str)))
                    THEN (IF Has(mappings[k], "output") THEN mappings[k].output
                          ELSE Raise("KeyError"))
                    ELSE pattern_rule_loop_spaced(value, field_config, k + 1)

\* the rule loop whose second pass takes the whitespace out of the pattern only
RECURSIVE pattern_rule_loop_half_compressed(_, _, _)
pattern_rule_loop_half_compressed(value, field_config, k) ==
    LET mappings == Mappings(field_config)
        value_str == PyStr(value)
    IN IF k > Len(mappings) THEN Get(field_config, "default", value)
       ELSE IF ~Has(mappings[k], "input_pattern") THEN Raise("KeyError")
       ELSE LET pattern == mappings[k].input_pattern
            IN IF ~Truthy(pattern)
               THEN pattern_rule_loop_half_compressed(value, field_config, k + 1)
               ELSE IF pattern.t # "str" THEN Raise("AttributeError")
               ELSE IF \/ ISearch(CollapseWs(Strip(pattern.s)), CollapseWs(Strip(value_str)))
                       \/ ISearch(RemoveWs(Strip(pattern.s)), Strip(value_str))
                    THEN (IF Has(mappings[k], "output") THEN mappings[k].output
                          ELSE Raise("KeyError"))
                    ELSE pattern_rule_loop_half_compressed(value, field_config, k + 1)

\* the rule loop of _apply_pattern_mapping for a non-empty scalar
RECURSIVE pattern_rule_loop(_, _, _)
pattern_rule_loop(value, field_config, k) ==
    LET mappings == Mappings(field_config)
        value_str == PyStr(value)
    IN IF k > Len(mappings) THEN Get(field_config, "default", value)
       ELSE IF ~Has(mappings[k], "input_pattern") THEN Raise("KeyError")
       ELSE LET pattern == mappings[k].input_pattern
            IN IF ~Truthy(pattern) THEN pattern_rule_loop(value, field_config, k + 1)
               ELSE IF pattern.t # "str" THEN Raise("AttributeError")
               ELSE LET normalized_pattern == CollapseWs(Strip(pattern.s))
                        normalized_value == CollapseWs(Strip(value_str))
                        compressed_pattern == RemoveWs(Strip(pattern.s))
                        compressed_value == RemoveWs(Strip(value_str))
                    IN IF \/ ISearch(normalized_pattern, normalized_value)
                          \/ ISearch(compressed_pattern, compressed_value)
                       THEN (IF Has(mappings[k], "output") THEN mappings[k].output
                             ELSE Raise("KeyError"))
                       ELSE pattern_rule_loop(value, field_config, k + 1)

\* _apply_pattern_mapping for a value that is not a list
pattern_mapping_scalar(value, field_config) ==
    IF value = Null THEN null_rule_loop(field_config, 1)
    ELSE IF ~Truthy(value) THEN Get(field_config, "default", value)
    ELSE pattern_rule_loop(value, field_config, 1)

\* the item loop of _apply_pattern_mapping for a list
RECURSIVE pattern_item_loop(_, _, _)
pattern_item_loop(value, field_config, i) ==
    IF i > Len(value.l) THEN Get(field_config, "default", value)
    ELSE With(pattern_mapping_scalar(value.l[i], field_config), LAMBDA result :
            IF IsRaise(result) THEN result
            ELSE IF ~PyEq(result, Get(field_config, "default", value)) THEN result
            ELSE pattern_item_loop(value, field_config, i + 1))

\* _apply_pattern_mapping(value, field_config)
_apply_pattern_mapping(value, field_config) ==
    IF value = Null THEN null_rule_loop(field_config, 1)
    ELSE IF ~Truthy(value) THEN Get(field_config, "default", value)
    ELSE IF value.t = "list" THEN pattern_item_loop(value, field_config, 1)
    ELSE pattern_rule_loop(value, field_config, 1)

\* the rule loop of _apply_extract_normalize
RECURSIVE normalize_rule_loop(_, _, _)
normalize_rule_loop(value, field_config, k) ==
    LET mappings == Mappings(field_config)
    IN IF k > Len(mappings) THEN Get(field_config, "default", Str(PyStr(value)))
       ELSE IF ~Has(mappings[k], "input") THEN Raise("KeyError")
       ELSE IF Str(PyStr(value)) = mappings[k].input
       THEN (IF Has(mappings[k], "output") THEN mappings[k].output ELSE Raise("KeyError"))
       ELSE normalize_rule_loop(value, field_config, k + 1)

\* _apply_extract_normalize(value, field_config)
_apply_extract_normalize(value, field_config) ==
    IF ~Truthy(value) THEN Get(field_config, "default", Str(<<>>))
    ELSE IF value.t = "list"
    THEN With(_extract_from_array(value.l, Get(field_config, "extract_patterns", <<>>)),
              LAMBDA extracted :
                IF IsRaise(extracted) THEN extracted
                ELSE IF ~Truthy(extracted) THEN Get(field_config, "default", Str(<<>>))
                ELSE normalize_rule_loop(extracted, field_config, 1))
    ELSE normalize_rule_loop(value, field_config, 1)

\* the rule loop of _apply_amount_normalization
RECURSIVE amount_rule_loop(_, _, _)
amount_rule_loop(value_str, field_config, k) ==
    LET mappings == Mappings(field_config)
    IN IF k > Len(mappings) THEN Get(field_config, "default", Str(value_str))
       ELSE IF ~Has(mappings[k], "pattern") THEN Raise("KeyError")
       ELSE With(re_search(mappings[k].pattern, value_str, FALSE), LAMBDA match :
               LET mapping == mappings[k]
                   transform == Get(mapping, "transform", "")
               IN IF IsRaise(match) THEN match
                  ELSE IF match = NoMatch THEN amount_rule_loop(value_str, field_config, k + 1)
                  ELSE IF Has(mapping, "output") THEN mapping.output
                  ELSE IF transform \in {"format_turkish_amount", "format_simple_amount"}
                  THEN LET g == MatchGroup(match, 1)
                       IN IF IsRaise(g) THEN g
                          ELSE IF transform = "format_turkish_amount"
                          THEN _format_turkish_amount(g)
                          ELSE _format_simple_amount(g)
                  ELSE amount_rule_loop(value_str, field_config, k + 1))

\* _apply_amount_normalization(value, field_config)
_apply_amount_normalization(value, field_config) ==
    IF ~Truthy(value) THEN Get(field_config, "default", Str(<<>>))
    ELSE amount_rule_loop(PyStr(value), field_config, 1)

\* ------------------------------------------------------------- numbers
RECURSIVE Pow10(_)
Pow10(k) == IF k = 0 THEN 1 ELSE 10 * Pow10(k - 1)

\* the float m / 10^k, written with the least k
RECURSIVE NormFloat(_, _)
NormFloat(m, k) == IF k > 0 /\ m % 10 = 0 THEN NormFloat(m \div 10, k - 1) ELSE Float(m, k)

Inf == [t |-> "inf"]
NaN == [t |-> "nan"]

\* float(x) and int(x) for a number x
ToFloat(x) == IF x.t = "int" THEN Float(x.n, 0) ELSE x
ToInt(x) ==
    CASE x.t = "int" -> x
      [] x.t = "float" -> Num(IF x.m >= 0 THEN x.m \div Pow10(x.k)
                              ELSE -((-x.m) \div Pow10(x.k)))
      [] x.t = "inf" -> Raise("OverflowError")
      [] OTHER -> Raise("ValueError")

\* a * b for numbers
Mul(a, b) ==
    IF a.t = "int" /\ b.t = "int" THEN Num(a.n * b.n)
    ELSE NormFloat(ToFloat(a).m * ToFloat(b).m, ToFloat(a).k + ToFloat(b).k)

LowerStr(s) == [i \in DOMAIN s |-> Lower(s[i])]

\* the digits of s once an optional sign is taken off
Unsigned(s) == IF s # <<>> /\ s[1] \in {"-", "+"} THEN Tail(s) ELSE s
SignOf(s) == IF s # <<>> /\ s[1] = "-" THEN -1 ELSE 1

\* int(s) for a str
ParseInt(s) ==
    With(Strip(s), LAMBDA t : With(Unsigned(t), LAMBDA body :
       IF IsDigitStr(body) THEN Num(SignOf(t) * DigitsToInt(body))
       ELSE Raise("ValueError")))

\* float(s) for a str
ParseFloat(s) ==
    With(Strip(s), LAMBDA t : With(Unsigned(t), LAMBDA body :
       IF LowerStr(body) = <<"i", "n", "f">> THEN Inf
       ELSE IF LowerStr(body) = <<"n", "a", "n">> THEN NaN
       ELSE IF IsDigitStr(body) THEN Float(SignOf(t) * DigitsToInt(body), 0)
       ELSE With(Split(body, "."), LAMBDA parts :
              IF /\ Len(parts) = 2
                 /\ parts[1] \o parts[2] # <<>>
                 /\ \A i \in DOMAIN parts[1] : parts[1][i] \in Digits
                 /\ \A i \in DOMAIN parts[2] : parts[2][i] \in Digits
              THEN NormFloat(SignOf(t) * DigitsToInt(parts[1] \o parts[2]), Len(parts[2]))
              ELSE Raise("ValueError"))))

\* int(x) and float(x) for any value (TypeError for None)
PyInt(x) ==
    CASE x.t = "str" -> ParseInt(x.s)
      [] IsNum(x) -> ToInt(x)
      [] OTHER -> Raise("TypeError")
PyFloat(x) ==
    CASE x.t = "str" -> ParseFloat(x.s)
      [] IsNum(x) -> ToFloat(x)
      [] OTHER -> Raise("TypeError")

Suffixes == << <<" ", "T", "L">>, <<".", "-", "T", "L">>, <<"-", "T", "L">>,
               <<"T", "L">>, <<".", "-">>, <<"-">> >>

\* the suffix loop run over the suffixes in the opposite order
RECURSIVE strip_suffix_reversed(_, _)
strip_suffix_reversed(cleaned, i) ==
    IF i > Len(Suffixes) THEN cleaned
    ELSE IF EndsWith(cleaned, Suffixes[Len(Suffixes) + 1 - i])
    THEN Strip(SubSeq(cleaned, 1, Len(cleaned) - Len(Suffixes[Len(Suffixes) + 1 - i])))
    ELSE strip_suffix_reversed(cleaned, i + 1)

\* the suffix loop of _parse_turkish_number
RECURSIVE strip_suffix(_, _)
strip_suffix(cleaned, i) ==
    IF i > Len(Suffixes) THEN cleaned
    ELSE IF EndsWith(cleaned, Suffixes[i])
    THEN Strip(SubSeq(cleaned, 1, Len(cleaned) - Len(Suffixes[i])))
    ELSE strip_suffix(cleaned, i + 1)

\* the explicit-format branch with the integer rounded to the nearest
parse_explicit_rounded(cleaned, output_type, sep, thousands) ==
    IF Contains(cleaned, sep)
    THEN With(Split(cleaned, sep), LAMBDA parts :
            IF Len(parts) = 2
            THEN With(RemoveChar(parts[1], thousands), LAMBDA integer_part :
                    LET decimal_part == parts[2]
                    IN IF IsDigitStr(integer_part) /\ IsDigitStr(decimal_part)
                       THEN (IF output_type = "float"
                             THEN NormFloat(DigitsToInt(integer_part \o decimal_part),
                                            Len(decimal_part))
                             ELSE Num(DigitsToInt(integer_part)
                                      + (IF DigitVal(decimal_part[1]) >= 5 THEN 1 ELSE 0)))
                       ELSE Null)
            ELSE Null)
    ELSE With(RemoveChar(cleaned, thousands), LAMBDA integer_only :
            IF IsDigitStr(integer_only)
            THEN (IF output_type = "float" THEN Float(DigitsToInt(integer_only), 0)
                  ELSE Num(DigitsToInt(integer_only)))
            ELSE Null)

\* the branch of _parse_turkish_number for an explicit format: sep is the
\* decimal separator, thousands the thousands separator
parse_explicit(cleaned, output_type, sep, thousands) ==
    IF Contains(cleaned, sep)
    THEN With(Split(cleaned, sep), LAMBDA parts :
            IF Len(parts) = 2
            THEN With(RemoveChar(parts[1], thousands), LAMBDA integer_part :
                    LET decimal_part == parts[2]
                    IN IF IsDigitStr(integer_part) /\ IsDigitStr(decimal_part)
                       THEN (IF output_type = "float"
                             THEN NormFloat(DigitsToInt(integer_part \o decimal_part),
                                            Len(decimal_part))
                             ELSE Num(DigitsToInt(integer_part)))
                       ELSE Null)
            ELSE Null)
    ELSE With(RemoveChar(cleaned, thousands), LAMBDA integer_only :
            IF IsDigitStr(integer_only)
            THEN (IF output_type = "float" THEN Float(DigitsToInt(integer_only), 0)
                  ELSE Num(DigitsToInt(integer_only)))
            ELSE Null)

\* _parse_turkish_number(value_str, output_type, turkish_format)
_parse_turkish_number(value_str, output_type, turkish_format) ==
    IF ~Truthy(value_str) THEN Null
    ELSE IF value_str.t # "str" THEN Raise("AttributeError")
    ELSE IF LowerStr(value_str.s) \in {<<"n", "o", "n", "e">>, <<"n", "a", "n">>, NullStr}
    THEN Null
    ELSE With(strip_suffix(Strip(value_str.s), 1), LAMBDA cleaned :
            \* the decimal separator the branch taken parses with, "" for none
            LET sep == IF turkish_format = Bool(TRUE) THEN ","
                       ELSE IF turkish_format = Bool(FALSE) THEN "."
                       ELSE IF Contains(cleaned, ",") /\ RFind(cleaned, ",") > RFind(cleaned, ".")
                       THEN ","
                       ELSE IF Contains(cleaned, ".") /\ RFind(cleaned, ".") > RFind(cleaned, ",")
                       THEN "."
                       ELSE IF IsDigitStr(RemoveChar(RemoveChar(cleaned, "."), ","))
                       THEN (IF Contains(cleaned, ".") /\ ~Contains(cleaned, ",") THEN ","
                             ELSE IF Contains(cleaned, ",") /\ ~Contains(cleaned, ".") THEN "."
                             ELSE "")
                       ELSE ""
            IN IF sep = "," THEN parse_explicit(cleaned, output_type, ",", ".")
               ELSE IF sep = "." THEN parse_explicit(cleaned, output_type, ".", ",")
               ELSE Null)

\* a matching rule whose numeric output is multiplied and brought to the
\* output type
numeric_rule_result_typed(mapping, field_config) ==
    LET output_type == Get(field_config, "output_type", "integer")
        input_pattern == Get(mapping, "input_pattern", Str(<<>>))
        output == Get(mapping, "output", Null)
        multiplier == Get(mapping, "multiplier", Num(1))
    IN IF IsNum(output)
       THEN (IF output_type = "integer" THEN ToInt(Mul(output, multiplier))
             ELSE ToFloat(Mul(output, multiplier)))
       ELSE With(IF Truthy(Get(field_config, "turkish_format", Bool(FALSE)))
                 THEN _parse_turkish_number(input_pattern, output_type, Null)
                 ELSE Null,
                 LAMBDA parsed :
                   IF IsRaise(parsed) THEN parsed
                   ELSE IF parsed # Null
                   THEN (IF output_type = "integer" THEN ToInt(Mul(parsed, multiplier))
                         ELSE ToFloat(Mul(parsed, multiplier)))
                   ELSE With(IF output_type = "integer" THEN PyInt(output)
                             ELSE PyFloat(output),
                             LAMBDA coerced :
                               IF /\ IsRaise(coerced)
                                  /\ coerced.exc \in {"ValueError", "TypeError"}
                               THEN output
                               ELSE coerced))

\* what a matching rule of _apply_numeric_conversion gives (lines 271-287)
numeric_rule_result(mapping, field_config) ==
    LET output_type == Get(field_config, "output_type", "integer")
        input_pattern == Get(mapping, "input_pattern", Str(<<>>))
        output == Get(mapping, "output", Null)
        multiplier == Get(mapping, "multiplier", Num(1))
    IN IF IsNum(output) THEN output
       ELSE With(IF Truthy(Get(field_config, "turkish_format", Bool(FALSE)))
                 THEN _parse_turkish_number(input_pattern, output_type, Null)
                 ELSE Null,
                 LAMBDA parsed :
                   IF IsRaise(parsed) THEN parsed
                   ELSE IF parsed # Null
                   THEN (IF output_type = "integer" THEN ToInt(Mul(parsed, multiplier))
                         ELSE ToFloat(Mul(parsed, multiplier)))
                   ELSE With(IF output_type = "integer" THEN PyInt(output)
                             ELSE PyFloat(output),
                             LAMBDA coerced :
                               IF /\ IsRaise(coerced)
                                  /\ coerced.exc \in {"ValueError", "TypeError"}
                               THEN output
                               ELSE coerced))

\* the rule loop of _apply_numeric_conversion and what follows it, for a scalar
RECURSIVE numeric_rule_loop(_, _, _)
numeric_rule_loop(value, field_config, k) ==
    LET mappings == Mappings(field_config)
        output_type == Get(field_config, "output_type", "integer")
    IN With(PyStr(value), LAMBDA value_str :
       IF k > Len(mappings)
       THEN With(_parse_turkish_number(Str(value_str), output_type,
                                       Get(field_config, "turkish_format", Null)),
                 LAMBDA parsed :
                   IF parsed # Null THEN parsed
                   ELSE With(ParseFloat(value_str), LAMBDA number :
                          IF IsRaise(number) THEN Get(field_config, "default", Null)
                          ELSE LET result == IF output_type = "integer" THEN ToInt(number)
                                             ELSE number
                               IN IF IsRaise(result) /\ result.exc = "ValueError"
                                  THEN Get(field_config, "default", Null)
                                  ELSE result))
       ELSE IF Strip(value_str) = Strip(PyStr(Get(mappings[k], "input_pattern", Str(<<>>))))
       THEN numeric_rule_result(mappings[k], field_config)
       ELSE numeric_rule_loop(value, field_config, k + 1))

\* _apply_numeric_conversion for a value that is not a list
numeric_conversion_scalar(value, field_config) ==
    IF ~Truthy(value) THEN Get(field_config, "default", Null)
    ELSE numeric_rule_loop(value, field_config, 1)

\* the item loop of _apply_numeric_conversion for a list
RECURSIVE numeric_item_loop(_, _, _)
numeric_item_loop(value, field_config, i) ==
    IF i > Len(value.l) THEN Get(field_config, "default", Null)
    ELSE With(numeric_conversion_scalar(value.l[i], field_config), LAMBDA result :
            IF result # Null THEN result
            ELSE numeric_item_loop(value, field_config, i + 1))

\* _apply_numeric_conversion(value, field_config)
_apply_numeric_conversion(value, field_config) ==
    IF ~Truthy(value) THEN Get(field_config, "default", Null)
    ELSE IF value.t = "list" THEN numeric_item_loop(value, field_config, 1)
    ELSE numeric_rule_loop(value, field_config, 1)

\* _map_field with a dispatch that rejects a type it does not know
map_by_type_strict(value, field_config) ==
    IF ~Has(field_config, "type") THEN Raise("KeyError")
    ELSE With(field_config.type, LAMBDA mapping_type :
            CASE mapping_type = "fixed_value" ->
                    (IF Has(field_config, "output") THEN field_config.output
                     ELSE Raise("KeyError"))
              [] mapping_type = "pattern_to_value" ->
                    _apply_pattern_mapping(value, field_config)
              [] mapping_type = "extract_normalize" ->
                    _apply_extract_normalize(value, field_config)
              [] mapping_type = "amount_normalization" ->
                    _apply_amount_normalization(value, field_config)
              [] mapping_type = "numeric_conversion" ->
                    _apply_numeric_conversion(value, field_config)
              [] OTHER -> Raise("ValueError"))

\* the dispatch of _map_field on field_config['type'] (lines 308-322)
map_by_type(value, field_config) ==
    IF ~Has(field_config, "type") THEN Raise("KeyError")
    ELSE With(field_config.type, LAMBDA mapping_type :
            CASE mapping_type = "fixed_value" ->
                    (IF Has(field_config, "output") THEN field_config.output
                     ELSE Raise("KeyError"))
              [] mapping_type = "pattern_to_value" ->
                    _apply_pattern_mapping(value, field_config)
              [] mapping_type = "extract_normalize" ->
                    _apply_extract_normalize(value, field_config)
              [] mapping_type = "amount_normalization" ->
                    _apply_amount_normalization(value, field_config)
              [] mapping_type = "numeric_conversion" ->
                    _apply_numeric_conversion(value, field_config)
              [] OTHER -> value)

\* _map_field that maps a field without a mapping entry to null
_map_field_unmapped_null(cfg, field_name, value) ==
    IF ~Has(cfg, "field_mappings") THEN Raise("KeyError")
    ELSE With(Get(cfg.field_mappings, field_name, EmptyDict), LAMBDA field_config :
            IF DOMAIN field_config = {} THEN Null
            ELSE map_by_type(value, field_config))

\* _map_field(field_name, value) under the loaded configuration cfg
_map_field(cfg, field_name, value) ==
    IF ~Has(cfg, "field_mappings") THEN Raise("KeyError")
    ELSE With(Get(cfg.field_mappings, field_name, EmptyDict), LAMBDA field_config :
            IF DOMAIN field_config = {} THEN value
            ELSE map_by_type(value, field_config))

\* ------------------------------------------------- the mapping inputs
MaxRules == 2
MaxDocs == 2
MaxCalls == 3

\* document ids, in the order of the input file
DocIds == <<"d1", "d2", "d3", "d4">>
Docs(n) == {DocIds[i] : i \in 1..n}

R_digits == Re(TRUE, <<ItemRep(Digits, TRUE, FALSE)>>)                 \* (\d+)
R_amount == Re(TRUE, <<ItemRep(Digits \cup {".", ","}, TRUE, FALSE)>>) \* ([\d.,]+)

\* rules of a pattern_to_value config
PatternRules ==
    {[input_pattern |-> Null, output |-> Str(<<"U", "N", "K">>)],
     [input_pattern |-> Str(NullStr), output |-> Str(<<"N">>)],
     [input_pattern |-> Str(<<"N", "U", "L", "L">>), output |-> Str(<<"U">>)],
     [input_pattern |-> Str(<<"b">>), output |-> Str(<<"x">>)],
     [input_pattern |-> Null],
     [output |-> Str(<<"q">>)]}

PatternConfigs ==
    {[type |-> "pattern_to_value", mappings |-> rs] :
        rs \in SeqsUpTo(PatternRules, MaxRules)}
    \cup {[type |-> "pattern_to_value", mappings |-> rs, default |-> Str(<<"d">>)] :
            rs \in SeqsUpTo(PatternRules, MaxRules)}
    \cup {[type |-> "pattern_to_value"]}

M_unknown == [type |-> "lookup_table", output |-> Str(<<"z">>)]
M_fixed == [type |-> "fixed_value", output |-> Str(<<"F", "I", "X">>)]
M_fixed_bad == [type |-> "fixed_value"]
M_notype == [output |-> Str(<<"z">>)]
M_pattern ==
    [type |-> "pattern_to_value",
     mappings |-> <<[input_pattern |-> Null, output |-> Str(<<"U", "N", "K">>)],
                    [input_pattern |-> Str(<<"b">>), output |-> Str(<<"x">>)]>>]
M_extract ==
    [type |-> "extract_normalize",
     extract_patterns |-> <<[pattern |-> R_digits, group |-> Num(1)]>>,
     mappings |-> <<[input |-> Str(<<"1", "2">>), output |-> Str(<<"1", "2", " ", "A", "Y">>)]>>,
     default |-> Str(<<"d">>)]
M_amount ==
    [type |-> "amount_normalization",
     mappings |-> <<[pattern |-> R_amount, transform |-> "format_turkish_amount"]>>]
M_amount_bad ==
    [type |-> "amount_normalization",
     mappings |-> <<[pattern |-> P_bad, output |-> Str(<<"x">>)]>>,
     default |-> Str(<<"d">>)]
M_numeric ==
    [type |-> "numeric_conversion",
     mappings |-> <<[input_pattern |-> Str(<<"b">>), output |-> Num(-1)]>>,
     turkish_format |-> Bool(TRUE)]

\* the field mapping configs a _map_field call is made under
FieldMappingConfigs ==
    PatternConfigs
    \cup {M_unknown, M_fixed, M_fixed_bad, M_notype, M_extract, M_amount, M_amount_bad,
          M_numeric, EmptyDict}

\* the raw values a document holds for a field
RawValues ==
    {Null, Str(<<"b">>), Str(NullStr), Str(<<"1", "2">>),
     List(<<Str(<<"b">>), Str(<<"1", "2">>)>>)}

\* the values of the documents of a processed file: null, a scalar, a list
FileValues == {Null, Str(<<"b">>), List(<<Str(<<"b">>), Str(<<"1", "2">>)>>)}

\* the mapping configurations process_file runs under ("f3" is a field that
\* only the configuration names)
EngineConfigs ==
    {[company |-> "acme", version |-> "2.0",
      field_mappings |-> [f1 |-> M_amount_bad, f3 |-> M_fixed]],
     [company |-> "acme", field_mappings |-> [f1 |-> M_unknown, f2 |-> M_fixed_bad]],
     [field_mappings |-> [f1 |-> M_pattern, f2 |-> M_unknown]],
     [company |-> "acme", field_mappings |-> [f1 |-> M_amount_bad, f2 |-> M_fixed]],
     [company |-> "acme", field_mappings |-> [f1 |-> M_notype, f2 |-> M_fixed_bad]],
     [company |-> "acme", field_mappings |-> [f1 |-> M_numeric, f2 |-> M_extract]],
     [company |-> "acme", field_mappings |-> EmptyDict],
     [company |-> "acme"]}

\* what a field of the input file holds: a dict document -> value over the
\* documents of the corpus, or (not a dict) null
FieldDatas(n) == [Docs(n) -> FileValues] \cup {Null}

\* the input files: every field holds the same n documents
RawDatas ==
    UNION {UNION {[fs -> FieldDatas(n)] : fs \in SUBSET FieldNames} : n \in 0..MaxDocs}

\* no extractor has been constructed
NoExtractor ==
    /\ config = EmptyDict
    /\ pdf_files = EmptyDict
    /\ _pdf_cache = EmptyCache

\* d[k] = v on a dict
Put(d, k, v) == [x \in DOMAIN d \cup {k} |-> IF x = k THEN v ELSE d[x]]

\* raw_data.items() and field_data.items(): the keys in file order
RawKeys(d) == SelectSeq(FieldOrder, LAMBDA f : f \in DOMAIN d)
DocKeys(field_data) == SelectSeq(DocIds, LAMBDA d : d \in DOMAIN field_data)

\* isinstance(x, dict) for what a field of the input file holds
IsDict(x) == "t" \notin DOMAIN x

\* datetime.now().isoformat()
Timestamps == {"t1", "t2"}

\* a mapping engine constructed over a configuration with one mapped field,
\* before any call
InitMapField ==
    /\ NoExtractor
    /\ NoPipeline
    /\ ret = [op |-> "none"]
    /\ map_config \in {[company |-> "acme", field_mappings |-> [f1 |-> fc]] :
                          fc \in FieldMappingConfigs}
    /\ raw_data = EmptyDict
    /\ mapped_data = EmptyDict
    /\ stats = EmptyDict
    /\ pc = "none"
    /\ field_idx = 0
    /\ doc_idx = 0
    /\ mapped_field = EmptyDict
    /\ output_file = Null
    /\ first_call = Null

\* a mapping engine constructed over a configuration, and the input file its
\* process_file is about to be run on
InitProcessFile ==
    /\ NoExtractor
    /\ NoPipeline
    /\ ret = [op |-> "none"]
    /\ map_config \in EngineConfigs
    /\ raw_data \in RawDatas \cup {Unreadable}
    /\ mapped_data = EmptyDict
    /\ stats = EmptyDict
    /\ pc = "start"
    /\ field_idx = 0
    /\ doc_idx = 0
    /\ mapped_field = EmptyDict
    /\ output_file = Null
    /\ first_call = Null

\* the number of the call after the one that left ret
CallNo == IF Has(ret, "n") THEN ret.n + 1 ELSE 1

\* a _map_field that remembers its result as the field's fixed value
MapField_caching(field_name, value) ==
    /\ CallNo <= MaxCalls
    /\ ret' = [op |-> "map_field", n |-> CallNo, field |-> field_name, arg |-> value,
                value |-> value, out |-> _map_field(map_config, field_name, value)]
    /\ first_call' = IF first_call = Null THEN ret' ELSE first_call
    /\ map_config' =
          IF IsRaise(ret'.out) \/ ~Has(map_config, "field_mappings") THEN map_config
          ELSE Put(map_config, "field_mappings",
                   Put(map_config.field_mappings, field_name,
                       [type |-> "fixed_value", output |-> ret'.out]))
    /\ UNCHANGED pipelineVars
    /\ UNCHANGED <<config, pdf_files, _pdf_cache>>
    /\ UNCHANGED <<raw_data, mapped_data, stats, pc, field_idx, doc_idx,
                   mapped_field, output_file>>

\* a call of _map_field(field_name, value) by a client of the engine: arg is
\* the value passed, value is what the caller's object holds after the call
MapField(field_name, value) ==
    /\ CallNo <= MaxCalls
    /\ ret' = [op |-> "map_field", n |-> CallNo, field |-> field_name, arg |-> value,
                value |-> value, out |-> _map_field(map_config, field_name, value)]
    /\ first_call' = IF first_call = Null THEN ret' ELSE first_call
    /\ UNCHANGED pipelineVars
    /\ UNCHANGED <<config, pdf_files, _pdf_cache>>
    /\ UNCHANGED <<map_config, raw_data, mapped_data, stats, pc, field_idx, doc_idx,
                   mapped_field, output_file>>

\* process_file up to the field loop (lines 326-338)
LoadInput ==
    /\ pc = "start"
    /\ IF raw_data = Unreadable
       THEN /\ pc' = "failed"
            /\ UNCHANGED <<mapped_data, stats, field_idx>>
       ELSE /\ pc' = "loop"
            /\ mapped_data' = EmptyDict
            /\ stats' = [total_fields |-> 0, mapped_fields |-> 0, errors |-> <<>>]
            /\ field_idx' = 1
    /\ UNCHANGED pipelineVars
    /\ UNCHANGED <<config, pdf_files, _pdf_cache, ret>>
    /\ UNCHANGED <<map_config, raw_data, doc_idx, mapped_field, output_file, first_call>>

\* an except branch that writes what was mapped before the exception
except_mapped_data_partial(field_name, field_data) ==
    Put(mapped_data, field_name, mapped_field)

\* an except branch that records no error for the field
except_stats_unrecorded(st, field_name, e) == st

\* an except branch that keeps the values mapped before the exception and the
\* original values of the other documents
except_mapped_data_mixed(field_name, field_data) ==
    Put(mapped_data, field_name,
        IF IsDict(field_data)
        THEN [d \in DOMAIN field_data |->
                 IF d \in DOMAIN mapped_field THEN mapped_field[d] ELSE field_data[d]]
        ELSE field_data)

\* the except branch of the field loop (lines 354-359): what it leaves in
\* stats and in mapped_data for the field that raised e
except_stats(st, field_name, e) ==
    [st EXCEPT !.errors = Append(@, [field |-> field_name, exc |-> e.exc])]
except_mapped_data(field_name, field_data) ==
    Put(mapped_data, field_name, field_data)

\* the head of the field loop (lines 340-347): counts the field and starts on
\* its documents; field_data.items() raises when the field holds no dict
BeginField ==
    /\ pc = "loop"
    /\ field_idx <= Len(RawKeys(raw_data))
    /\ LET field_name == RawKeys(raw_data)[field_idx]
           field_data == raw_data[field_name]
           counted == [stats EXCEPT !.total_fields = @ + 1]
       IN IF IsDict(field_data)
          THEN /\ stats' = counted
               /\ mapped_field' = EmptyDict
               /\ doc_idx' = 1
               /\ pc' = "docs"
               /\ UNCHANGED <<mapped_data, field_idx>>
          ELSE /\ stats' = except_stats(counted, field_name, Raise("AttributeError"))
               /\ mapped_data' = except_mapped_data(field_name, field_data)
               /\ mapped_field' = EmptyDict
               /\ field_idx' = field_idx + 1
               /\ UNCHANGED <<pc, doc_idx>>
    /\ UNCHANGED pipelineVars
    /\ UNCHANGED <<config, pdf_files, _pdf_cache, ret>>
    /\ UNCHANGED <<map_config, raw_data, output_file, first_call>>

\* one turn of the document loop (lines 347-349), and the except branch
\* (lines 354-359) when _map_field raises
MapDocument ==
    /\ pc = "docs"
    /\ LET field_name == RawKeys(raw_data)[field_idx]
           field_data == raw_data[field_name]
       IN /\ doc_idx <= Len(DocKeys(field_data))
          /\ LET document_id == DocKeys(field_data)[doc_idx]
                 document_value == field_data[document_id]
             IN /\ ret' = [op |-> "map_field", field |-> field_name,
                           arg |-> document_value, value |-> document_value,
                           out |-> _map_field(map_config, field_name, document_value)]
                /\ first_call' = IF first_call = Null THEN ret' ELSE first_call
                /\ IF IsRaise(ret'.out)
                   THEN /\ stats' = except_stats(stats, field_name, ret'.out)
                        /\ mapped_data' = except_mapped_data(field_name, field_data)
                        /\ field_idx' = field_idx + 1
                        /\ pc' = "loop"
                        /\ UNCHANGED <<mapped_field, doc_idx>>
                   ELSE /\ mapped_field' = Put(mapped_field, document_id, ret'.out)
                        /\ doc_idx' = doc_idx + 1
                        /\ UNCHANGED <<stats, mapped_data, field_idx, pc>>
    /\ UNCHANGED pipelineVars
    /\ UNCHANGED <<config, pdf_files, _pdf_cache>>
    /\ UNCHANGED <<map_config, raw_data, output_file>>

\* the end of a field whose documents all mapped (lines 351-352)
EndField ==
    /\ pc = "docs"
    /\ LET field_name == RawKeys(raw_data)[field_idx]
       IN /\ doc_idx > Len(DocKeys(raw_data[field_name]))
          /\ mapped_data' = Put(mapped_data, field_name, mapped_field)
          /\ stats' = [stats EXCEPT !.mapped_fields = @ + 1]
          /\ field_idx' = field_idx + 1
          /\ pc' = "loop"
    /\ UNCHANGED pipelineVars
    /\ UNCHANGED <<config, pdf_files, _pdf_cache, ret>>
    /\ UNCHANGED <<map_config, raw_data, doc_idx, mapped_field, output_file, first_call>>

\* after the field loop (lines 361-375): the metadata block, then the write
Finish ==
    /\ pc = "loop"
    /\ field_idx > Len(RawKeys(raw_data))
    /\ \E now \in Timestamps :
          mapped_data' = Put(mapped_data, "_mapping_metadata",
                             [company |-> Get(map_config, "company", "unknown"),
                              config_version |-> Get(map_config, "version", "1.0"),
                              processing_stats |-> stats,
                              timestamp |-> now])
    /\ output_file' = mapped_data'
    /\ pc' = "done"
    /\ UNCHANGED pipelineVars
    /\ UNCHANGED <<config, pdf_files, _pdf_cache, ret>>
    /\ UNCHANGED <<map_config, raw_data, stats, field_idx, doc_idx, mapped_field,
                   first_call>>

\* the calls a client makes on the engine drawn by InitMapField
NextMapField == \E f \in FieldNames, v \in RawValues : MapField(f, v)

SpecMapField == InitMapField /\ [][NextMapField]_vars

\* a run of process_file
NextProcessFile ==
    \/ LoadInput
    \/ BeginField
    \/ MapDocument
    \/ EndField
    \/ Finish

SpecProcessFile == InitProcessFile /\ [][NextProcessFile]_vars

\* ------------------------------------------- the pattern_to_value inputs
\* rules of a pattern_to_value entry that are tried on scalars and lists
MatchRules ==
    {[input_pattern |-> Str(<<"b">>), output |-> Str(<<"x">>)],
     [input_pattern |-> Str(<<"A", " ", "b">>), output |-> Str(<<"A", "B">>)],
     [input_pattern |-> Str(<<"a", "b">>), output |-> Str(<<"a", "b", "2">>)],
     [input_pattern |-> Str(<<>>), output |-> Str(<<"E">>)],
     [input_pattern |-> Null, output |-> Str(<<"U", "N", "K">>)],
     [input_pattern |-> Str(<<"b">>), output |-> Null],
     [input_pattern |-> Str(<<"c">>), output |-> Str(<<"d">>)],
     [input_pattern |-> Str(<<" ">>), output |-> Str(<<"W">>)]}

MatchConfigs ==
    {[type |-> "pattern_to_value", mappings |-> rs] : rs \in SeqsUpTo(MatchRules, MaxRules)}
    \cup {[type |-> "pattern_to_value", mappings |-> rs, default |-> Str(<<"d">>)] :
            rs \in SeqsUpTo(MatchRules, MaxRules)}

\* the raw values mapped under them
MatchScalars ==
    {Str(<<"b">>), Str(<<"B">>), Str(<<"c">>), Str(<<"a", "b">>),
     Str(<<" ", "a", " ", "\n", "b", " ">>), Str(<<"a", "c">>), Str(<<" ">>), Str(<<"z">>)}
MatchLists ==
    {List(<<>>), List(<<Str(<<"z">>), Str(<<"b">>)>>), List(<<Str(<<"b">>), Str(<<"c">>)>>),
     List(<<Str(<<"c">>), Str(<<"c">>)>>), List(<<Str(<<"c">>), Str(<<"a", " ", "b">>)>>),
     List(<<Str(<<"z">>), Str(<<"z">>)>>)}
MatchValues == MatchScalars \cup MatchLists

\* a mapping engine constructed over one pattern_to_value entry, before the call
InitPattern ==
    /\ NoExtractor
    /\ NoPipeline
    /\ ret = [op |-> "none"]
    /\ map_config \in {[company |-> "acme", field_mappings |-> [f1 |-> fc]] :
                          fc \in MatchConfigs}
    /\ raw_data = EmptyDict
    /\ mapped_data = EmptyDict
    /\ stats = EmptyDict
    /\ pc = "none"
    /\ field_idx = 0
    /\ doc_idx = 0
    /\ mapped_field = EmptyDict
    /\ output_file = Null
    /\ first_call = Null

\* one _map_field call on the mapped field
NextPattern == \E v \in MatchValues : ret.op = "none" /\ MapField("f1", v)

SpecPattern == InitPattern /\ [][NextPattern]_vars

\* ----------------------------------------- the numeric_conversion inputs
\* the configs of S, and those with key k set to a value of vs
WithOptional(S, k, vs) == S \cup {Put(c, k, v) : c \in S, v \in vs}

\* rules of a numeric_conversion entry ("S" stands for a word such as SINIRSIZ)
NumericRules ==
    {[input_pattern |-> Str(<<"S">>), output |-> Num(-1)],
     [input_pattern |-> Str(<<" ", "S">>), output |-> Float(25, 1), multiplier |-> Num(1000)],
     [input_pattern |-> Str(<<"S">>), output |-> Str(<<"x">>)],
     [input_pattern |-> Str(<<"1", ",", "5">>), output |-> Str(<<"7">>), multiplier |-> Num(2)],
     [input_pattern |-> Str(<<"1", ".", "2", "3", "4">>), output |-> Str(<<"x">>),
      multiplier |-> Num(2)]}

NumericConfigs ==
    WithOptional(
        WithOptional(
            WithOptional({[type |-> "numeric_conversion", mappings |-> rs] :
                             rs \in SeqsUpTo(NumericRules, MaxRules)},
                         "turkish_format", {Bool(TRUE), Bool(FALSE)}),
            "output_type", {"integer", "float"}),
        "default", {Num(0)})

\* raw values that end with currency suffixes
SuffixedScalars ==
    {Str(<<"1", ".", "0", "0", "0", ".", "-", "T", "L">>), Str(<<"5", "-", "T", "L", "-">>),
     Str(<<"5", " ", "T", "L">>), Str(<<"5", "T", "L">>), Str(<<"5", ".", "-">>),
     Str(<<"5", "-">>), Str(<<"5", " ", "T", "L", " ", "T", "L">>), Str(<<"T", "L">>),
     Str(<<"1", ".", "0", "0", "0", ",", "5", "0", " ", "T", "L">>),
     Str(<<"5", " ", "-", " ">>), Str(<<"5", "-", "-">>)}

\* the raw values converted under them
NumericScalars ==
    {Str(<<"S">>), Str(<<" ", "S", " ">>), Str(<<"1", "2">>), Str(<<"a", "b", "c">>),
     Str(<<"1", ".", "2", "3", "4">>), Str(<<"1", ",", "2", "3", "4">>),
     Str(<<"1", ".", "2", "3", "4", ".", "5", "6", "7">>),
     Str(<<"2", ".", "5", "0", "0", ".", "0", "0", "0", ",", "7", "5">>),
     Str(<<"1", ".", "2", "3", "4", ",", "5">>), Str(<<"1", ",", "2", "3", "4", ".", "5">>),
     Str(<<"1", "2", ",", "9", "9">>), Str(<<"1", "a", ",", "5">>), Str(<<"1", ",", "5", "a">>),
     Str(<<"1", ",", "5", ",", "3">>), Str(<<",", "5">>), Str(<<"3", ",">>),
     Str(<<" ", "7", ",", "5", " ">>)} \cup SuffixedScalars
NumericLists ==
    {List(<<>>), List(<<Str(<<"a", "b", "c">>), Str(<<"1", "2">>)>>),
     List(<<Str(<<"1", "2">>), Str(<<"a", "b", "c">>)>>),
     List(<<Str(<<"a", "b", "c">>), Str(<<"z">>)>>),
     List(<<Str(<<>>), Str(<<"S">>)>>)}
NumericValues == NumericScalars \cup NumericLists

\* a mapping engine constructed over one numeric_conversion entry, before the
\* call
InitNumeric ==
    /\ NoExtractor
    /\ NoPipeline
    /\ ret = [op |-> "none"]
    /\ map_config \in {[company |-> "acme", field_mappings |-> [f1 |-> fc]] :
                          fc \in NumericConfigs}
    /\ raw_data = EmptyDict
    /\ mapped_data = EmptyDict
    /\ stats = EmptyDict
    /\ pc = "none"
    /\ field_idx = 0
    /\ doc_idx = 0
    /\ mapped_field = EmptyDict
    /\ output_file = Null
    /\ first_call = Null

\* one _map_field call on the mapped field
NextNumeric == \E v \in NumericValues : ret.op = "none" /\ MapField("f1", v)

SpecNumeric == InitNumeric /\ [][NextNumeric]_vars

\* --------------------------------------- the amount_normalization inputs
R_number == Re(TRUE, <<ItemRep(Digits, FALSE, FALSE)>>)                \* \d+
R_empty_b == Re(TRUE, <<Item(<<>>, TRUE, FALSE),
                        Item(<<{"b"}>>, FALSE, FALSE)>>)               \* ()b

\* rules of an amount_normalization entry
AmountRules ==
    {[pattern |-> R_amount, transform |-> "format_turkish_amount"],
     [pattern |-> R_digits, transform |-> "format_simple_amount"],
     [pattern |-> R_amount, output |-> Str(<<"L", "I", "T">>),
      transform |-> "format_turkish_amount"],
     [pattern |-> P_optA_b, transform |-> "format_turkish_amount"],
     [pattern |-> R_empty_b, transform |-> "format_turkish_amount"],
     [pattern |-> R_amount, transform |-> "format_other"],
     [pattern |-> R_number, transform |-> "format_turkish_amount"]}

AmountConfigs ==
    WithOptional({[type |-> "amount_normalization", mappings |-> rs] :
                     rs \in SeqsUpTo(AmountRules, MaxRules)},
                 "default", {Str(<<"d">>)})

\* the raw values normalized under them
AmountValues ==
    {Str(<<"1", ".", "2", "3", "4", ",", "0", "0">>),
     Str(<<"1", ".", "2", "3", "4", ",", "5", "0">>),
     Str(<<"2", ".", "5", "0", "0", ".", "0", "0", "0", ",", "0", "0", " ", "T", "L">>),
     Str(<<",", "0", "0">>), Str(<<"7">>), Str(<<"b">>), Str(<<"a", "b">>), Str(<<"x">>),
     List(<<Str(<<"1", ",", "0", "0">>)>>)}

\* a mapping engine constructed over one amount_normalization entry, before
\* the call
InitAmount ==
    /\ NoExtractor
    /\ NoPipeline
    /\ ret = [op |-> "none"]
    /\ map_config \in {[company |-> "acme", field_mappings |-> [f1 |-> fc]] :
                          fc \in AmountConfigs}
    /\ raw_data = EmptyDict
    /\ mapped_data = EmptyDict
    /\ stats = EmptyDict
    /\ pc = "none"
    /\ field_idx = 0
    /\ doc_idx = 0
    /\ mapped_field = EmptyDict
    /\ output_file = Null
    /\ first_call = Null

\* one _map_field call on the mapped field
NextAmount == \E v \in AmountValues : ret.op = "none" /\ MapField("f1", v)

SpecAmount == InitAmount /\ [][NextAmount]_vars

\* ----------------------------------------------------- extract_normalize
R_opt_digits == Re(TRUE, <<ItemRep(Digits, TRUE, TRUE)>>)             \* (\d+)?

\* entries of extract_patterns, and rule lists of an extract_normalize entry
ExtractPatterns ==
    {[pattern |-> R_digits, group |-> Num(1)],
     [pattern |-> R_opt_digits, group |-> Num(1)],
     [pattern |-> P_a]}
NormalizeRuleLists ==
    {<<>>,
     <<[input |-> Str(<<"1", "2">>), output |-> Str(<<"1", "2", " ", "A", "Y">>)]>>,
     <<[input |-> Str(<<"a">>), output |-> Str(<<"A">>)],
       [input |-> Str(<<"5">>), output |-> Str(<<"f", "i", "v", "e">>)]>>}

NormalizeConfigs ==
    WithOptional({[type |-> "extract_normalize", extract_patterns |-> ps, mappings |-> rs] :
                     ps \in SeqsUpTo(ExtractPatterns, MaxPatterns), rs \in NormalizeRuleLists},
                 "default", {Str(<<"d">>)})

\* the raw values normalized under them
NormalizeValues ==
    {List(<<>>), List(<<Str(<<"5">>), Str(<<"1", "2">>)>>),
     List(<<Str(<<"1", "2">>), Str(<<"5">>)>>), List(<<Str(<<"a">>), Str(<<"5">>)>>),
     List(<<Str(<<"x">>), Str(<<"1", "2">>)>>), List(<<Str(<<"1", "2">>), Str(<<"x">>)>>),
     List(<<Str(<<"x">>)>>), List(<<Str(<<"A", "5">>)>>), List(<<Str(<<"0", "5">>)>>),
     Str(<<"1", "2">>), Str(<<"a">>)}

\* a mapping engine constructed over one extract_normalize entry, before the
\* call
InitNormalize ==
    /\ NoExtractor
    /\ NoPipeline
    /\ ret = [op |-> "none"]
    /\ map_config \in {[company |-> "acme", field_mappings |-> [f1 |-> fc]] :
                          fc \in NormalizeConfigs}
    /\ raw_data = EmptyDict
    /\ mapped_data = EmptyDict
    /\ stats = EmptyDict
    /\ pc = "none"
    /\ field_idx = 0
    /\ doc_idx = 0
    /\ mapped_field = EmptyDict
    /\ output_file = Null
    /\ first_call = Null

\* one _map_field call on the mapped field
NextNormalize == \E v \in NormalizeValues : ret.op = "none" /\ MapField("f1", v)

SpecNormalize == InitNormalize /\ [][NextNormalize]_vars

\* ------------------------------------------- OutputCreator and OutputChecker
\* a file of the corpus directory data/00_raw_pdfs/<company>: pdf_file.stem
\* and pdf_file.suffix
File(stem, suffix) == [stem |-> stem, suffix |-> suffix]

\* self.pdf_dir.glob("*.pdf")
Glob(files) == {p \in DOMAIN files : p.suffix = ".pdf"}

\* sorted(list(...)) on the paths of one directory: the order of the names
StemOrder == <<"d1", "d2", "d3">>
StemRank(p) == CHOOSE i \in DOMAIN StemOrder : StemOrder[i] = p.stem

RECURSIVE Sorted(_)
Sorted(S) ==
    IF S = {} THEN <<>>
    ELSE LET first == CHOOSE p \in S : \A q \in S : StemRank(p) <= StemRank(q)
         IN <<first>> \o Sorted(S \ {first})

\* for field_name, value in field_results.items():
\*     all_results[field_name][doc_id] = value          (a defaultdict(dict))
store_field_results(all_results, doc_id, field_results) ==
    [f \in DOMAIN all_results \cup DOMAIN field_results |->
        IF f \in DOMAIN field_results
        THEN Put(IF f \in DOMAIN all_results THEN all_results[f] ELSE EmptyDict,
                 doc_id, field_results[f])
        ELSE all_results[f]]

\* for pdf_file in self.pdf_files: ... ; an exception of extract_all_fields
\* leaves the loop and generate_all_fields
RECURSIVE pdf_files_loop(_, _, _, _, _)
pdf_files_loop(cfg, cache, files, docs, all_results) ==
    IF docs = <<>> THEN [cache |-> cache, out |-> [t |-> "dict", d |-> all_results]]
    ELSE With(extract_all_fields(cfg, cache, files, Head(docs)), LAMBDA r :
            IF IsRaise(r.out) THEN r
            ELSE pdf_files_loop(cfg, r.cache, files, Tail(docs),
                     store_field_results(all_results, Head(docs).stem, r.out.d)))

\* a count of every value, null or not
successful_all(field_data) == Cardinality(DOMAIN field_data)

\* sum(1 for v in field_data.values() if v is not None)
RECURSIVE count_not_none(_, _)
count_not_none(field_data, docs) ==
    IF docs = {} THEN 0
    ELSE LET d == CHOOSE d \in docs : TRUE
         IN (IF field_data[d] # Null THEN 1 ELSE 0) + count_not_none(field_data, docs \ {d})

successful(field_data) == count_not_none(field_data, DOMAIN field_data)

\* a float that is the quotient of two ints, in lowest terms
RECURSIVE GCD(_, _)
GCD(a, b) == IF b = 0 THEN a ELSE GCD(b, a % b)
Quotient(n, d) == [t |-> "float", num |-> n \div GCD(n, d), den |-> d \div GCD(n, d)]

\* (successful / total_docs) * 100 if total_docs > 0 else 0
success_rate(n_successful, total_docs) ==
    IF total_docs > 0
    THEN LET q == Quotient(n_successful, total_docs)     \* successful / total_docs
         IN Quotient(q.num * 100, q.den)
    ELSE Num(0)

field_stat(field_data, total_docs) ==
    [successful |-> successful(field_data),
     total |-> total_docs,
     success_rate |-> success_rate(successful(field_data), total_docs)]

\* generate_all_fields: field_stats
field_stats(all_results, total_docs) ==
    [f \in DOMAIN all_results |-> field_stat(all_results[f], total_docs)]

\* check_fields: the fields to report, then the statistics of each field
\* that the data has; total_docs = len(field_data)
checked_names(data, field_names) ==
    LET names == IF field_names.t = "str" THEN <<field_names.name>>
                 ELSE IF field_names.t = "list" THEN field_names.names
                 ELSE <<>>
    IN IF names = <<>> THEN DOMAIN data ELSE {names[i] : i \in DOMAIN names}

check_fields(data, field_names) ==
    [f \in checked_names(data, field_names) \cap DOMAIN data |->
        field_stat(data[f], Cardinality(DOMAIN data[f]))]

\* configurations and corpus directories
CorpusConfigs ==
    {[f \in FieldNames |-> IF f = "f1" THEN a ELSE b] :
        a \in {[pattern |-> P_capA], [pattern |-> P_capA, group |-> GroupAll]},
        b \in {[patterns |-> <<P_bad, P_capA>>], [pattern |-> P_optB, group |-> Num(0)],
               EmptyDict}}
        \cup {[f \in {"f1"} |-> EmptyDict], EmptyDict}

CorpusDocuments == {Str(<<"a">>), Str(<<"b">>), Unreadable}
CorpusFiles == {File(StemOrder[i], ".pdf") : i \in DOMAIN StemOrder} \cup {File("d1", ".txt")}
Directories == {S \in SUBSET CorpusFiles : Glob([p \in S |-> Null]) # {}}

\* OutputCreator.__init__ has returned: the directory holds at least one
\* PDF, the extractor is new; output_file is data/02_output/<company>.json
InitCorpus ==
    /\ config \in CorpusConfigs
    /\ pdf_files \in UNION {[S -> CorpusDocuments] : S \in Directories}
    /\ _pdf_cache = EmptyCache
    /\ ret = [op |-> "none"]
    /\ NoEngine
    /\ NoPipeline

\* creator.generate_all_fields(): output_file holds the JSON document by the
\* data it encodes (dicts with str keys, str, list of str and None, which
\* json.dump writes and json.load reads back as they are)
GenerateAllFields ==
    LET docs == Sorted(Glob(pdf_files))
        r == pdf_files_loop(config, _pdf_cache, pdf_files, docs, EmptyDict)
    IN /\ _pdf_cache' = r.cache
       /\ IF IsRaise(r.out)
          THEN /\ ret' = [op |-> "generate_all_fields", out |-> r.out]
               /\ UNCHANGED output_file
          ELSE /\ ret' = [op |-> "generate_all_fields", out |-> r.out,
                          field_stats |-> field_stats(r.out.d, Len(docs))]
               /\ output_file' = r.out.d
       /\ UNCHANGED pipelineVars
       /\ UNCHANGED <<config, pdf_files>>
       /\ UNCHANGED <<map_config, raw_data, mapped_data, stats, pc, field_idx, doc_idx,
                      mapped_field, first_call>>

\* checker.check_fields(company, field_names): out is what it reports
CheckFields(field_names) ==
    /\ ret' = [op |-> "check_fields", field_names |-> field_names,
               out |-> IF output_file = Null THEN Raise("FileNotFoundError")
                       ELSE [t |-> "dict", d |-> check_fields(output_file, field_names)]]
    /\ UNCHANGED pipelineVars
    /\ UNCHANGED <<config, pdf_files, _pdf_cache>>
    /\ UNCHANGED engineVars

FieldNameArgs ==
    {Null, [t |-> "str", name |-> "f1"], [t |-> "list", names |-> <<"f2", "f3">>]}

NextCorpus ==
    \/ GenerateAllFields
    \/ \E field_names \in FieldNameArgs : CheckFields(field_names)

SpecCorpus == InitCorpus /\ [][NextCorpus]_vars

\* ------------------------------------------------------------------------
\* The batch pipeline (user_tools/process_pipeline)
\* ------------------------------------------------------------------------
MaxCompanies == 2

\* the company directories under data/00_raw_pdfs, sorted
CompanyNames == <<"a_E", "b_E", "c_E">>

\* a file of data/02_output or data/03_mapped: not there, left by an earlier
\* run, written by this run, or cut short while it was being written
FileStates == {"absent", "old", "new", "partial"}

\* how a run of agent_tools/output_create.py for a company ends: "ok" writes
\* the output file; the three that follow are raised by OutputCreator or the
\* extractor and caught by its main (lines 121-126), which prints the error
\* and returns; "tool_error" is a run that does not get as far as main
ExtractionOutcomes ==
    {"ok", "malformed_config", "no_documents", "unreadable_document", "tool_error"}

\* the return code of output_create.py: main ends normally after its except
returncode_of_output_create(outcome) == IF outcome = "tool_error" THEN 1 ELSE 0

\* the state of the mapping configuration of a company
MappingConfigs == {"missing", "ok", "malformed"}

\* the return code of mapping/mapping_engine.py (main, lines 385-404): 1 when
\* the configuration or the input file cannot be loaded
returncode_of_mapping_engine(mapping_config, input_file) ==
    IF mapping_config = "ok" /\ input_file \in {"old", "new"} THEN 0 ELSE 1

\* what the kill of a child process that writes a file leaves of the file
Killed(file) == {file, "partial", "new"}

Event(company, name, cause, ok) ==
    [company |-> company, step |-> name, cause |-> cause, ok |-> ok]

\* the company the loop of main is at
company == companies[company_idx]

\* process_company returns False (lines 201-215): main goes on with the next
\* company without counting this one
ReturnFalse(events) ==
    /\ stdout' = stdout \o events \o <<Event(company, "process_company", "", FALSE)>>
    /\ company_idx' = company_idx + 1
    /\ step' = "loop"
    /\ UNCHANGED success_count

\* the pipeline is about to run over the companies found, each with the
\* files an earlier run may have left
InitPipeline ==
    /\ NoExtractor
    /\ NoEngine
    /\ ret = [op |-> "none"]
    /\ args \in [skip_extraction : BOOLEAN]
    /\ companies \in {SubSeq(CompanyNames, 1, n) : n \in 0..MaxCompanies}
    /\ company_idx = 0
    /\ success_count = 0
    /\ step = "main"
    /\ data_dir \in [{companies[i] : i \in DOMAIN companies} ->
                       {[output |-> f, mapped |-> f] : f \in {"absent", "old"}}]
    /\ stdout = <<>>

\* main up to the company loop (lines 283-293)
Main ==
    /\ step = "main"
    /\ IF companies = <<>>
       THEN /\ stdout' = Append(stdout, [step |-> "exit", code |-> 1])
            /\ step' = "exit"
            /\ UNCHANGED <<company_idx, success_count>>
       ELSE /\ success_count' = 0
            /\ company_idx' = 1
            /\ step' = "loop"
            /\ UNCHANGED stdout
    /\ UNCHANGED <<args, companies, data_dir>>
    /\ UNCHANGED extractorVars
    /\ UNCHANGED engineVars

\* the head of the company loop (line 294) and the call of process_company
\* (lines 195-198)
NextCompany ==
    /\ step = "loop"
    /\ IF company_idx <= Len(companies)
       THEN /\ step' = "validate"
            /\ stdout' = Append(stdout, Event(company, "start", "", TRUE))
       ELSE /\ step' = "results"
            /\ UNCHANGED stdout
    /\ UNCHANGED <<args, companies, company_idx, success_count, data_dir>>
    /\ UNCHANGED extractorVars
    /\ UNCHANGED engineVars

\* step 1 of process_company (lines 200-202): validate_company (lines 34-51)
\* looks for the PDF directory, which is there for a company that was listed,
\* and for the extraction configuration
ValidateCompany ==
    /\ step = "validate"
    /\ \E extraction_config_exists \in BOOLEAN :
          IF extraction_config_exists
          THEN /\ stdout' = Append(stdout, Event(company, "validate", "ok", TRUE))
               /\ step' = "extract"
               /\ UNCHANGED <<company_idx, success_count>>
          ELSE ReturnFalse(<<Event(company, "validate", "no_extraction_config", FALSE)>>)
    /\ UNCHANGED <<args, companies, data_dir>>
    /\ UNCHANGED extractorVars
    /\ UNCHANGED engineVars

\* step 2 of process_company (lines 204-209): run_extraction (lines 53-73)
\* runs output_create.py and goes by its return code
RunExtraction ==
    /\ step = "extract"
    /\ ~args.skip_extraction
    /\ \E outcome \in ExtractionOutcomes :
          /\ data_dir' = IF outcome = "ok"
                         THEN [data_dir EXCEPT ![company].output = "new"]
                         ELSE data_dir
          /\ IF returncode_of_output_create(outcome) = 0
             THEN /\ stdout' = Append(stdout, Event(company, "extract", outcome, TRUE))
                  /\ step' = "normalize"
                  /\ UNCHANGED <<company_idx, success_count>>
             ELSE ReturnFalse(<<Event(company, "extract", outcome, FALSE)>>)
    /\ UNCHANGED <<args, companies>>
    /\ UNCHANGED extractorVars
    /\ UNCHANGED engineVars

\* step 2 with --skip-extraction (lines 208-209)
SkipExtraction ==
    /\ step = "extract"
    /\ args.skip_extraction
    /\ stdout' = Append(stdout, Event(company, "skip_extraction", "", TRUE))
    /\ step' = "normalize"
    /\ UNCHANGED <<args, companies, company_idx, success_count, data_dir>>
    /\ UNCHANGED extractorVars
    /\ UNCHANGED engineVars

\* step 3 of process_company (lines 211-213): run_normalization (lines
\* 75-111) skips a company without mapping configuration and otherwise runs
\* the mapping engine on the company's file of data/02_output
RunNormalization ==
    /\ step = "normalize"
    /\ \E mapping_config \in MappingConfigs :
          LET input_file == data_dir[company].output
          IN IF mapping_config = "missing"
             THEN /\ stdout' = Append(stdout, Event(company, "normalize", "skipped", TRUE))
                  /\ step' = "report"
                  /\ UNCHANGED <<company_idx, success_count, data_dir>>
             ELSE IF returncode_of_mapping_engine(mapping_config, input_file) = 0
             THEN /\ stdout' = Append(stdout, Event(company, "normalize", input_file, TRUE))
                  /\ data_dir' = [data_dir EXCEPT ![company].mapped = "new"]
                  /\ step' = "report"
                  /\ UNCHANGED <<company_idx, success_count>>
             ELSE /\ ReturnFalse(<<Event(company, "normalize", "failed", FALSE)>>)
                  /\ UNCHANGED data_dir
    /\ UNCHANGED <<args, companies>>
    /\ UNCHANGED extractorVars
    /\ UNCHANGED engineVars

\* step 4 of process_company (lines 215-219): generate_report (lines 114-132)
\* never fails the company; process_company returns True and main counts the
\* company (lines 296-297)
GenerateReport ==
    /\ step = "report"
    /\ stdout' = stdout \o <<Event(company, "report", "", TRUE),
                             Event(company, "process_company", "", TRUE)>>
    /\ success_count' = success_count + 1
    /\ company_idx' = company_idx + 1
    /\ step' = "loop"
    /\ UNCHANGED <<args, companies, data_dir>>
    /\ UNCHANGED extractorVars
    /\ UNCHANGED engineVars

\* Ctrl-C while main is in the company loop.  Inside process_company the
\* KeyboardInterrupt passes the "except Exception" of the step at hand,
\* subprocess.run kills the child it was waiting for, and main's handler
\* (lines 298-300) leaves the loop; at the loop head no handler is in force
KeyboardInterrupt ==
    /\ step \in {"loop", "validate", "extract", "normalize", "report"}
    /\ IF step = "loop"
       THEN /\ stdout' = Append(stdout, [step |-> "traceback"])
            /\ step' = "exit"
            /\ UNCHANGED data_dir
       ELSE /\ \E file \in Killed(IF step = "extract" THEN data_dir[company].output
                                  ELSE data_dir[company].mapped) :
                  data_dir' =
                     IF step = "extract" /\ ~args.skip_extraction
                     THEN [data_dir EXCEPT ![company].output = file]
                     ELSE IF step = "normalize"
                     THEN [data_dir EXCEPT ![company].mapped = file]
                     ELSE data_dir
            /\ stdout' = Append(stdout, [step |-> "interrupted", company |-> company,
                                         at |-> step, files |-> data_dir])
            /\ step' = "results"
    /\ UNCHANGED <<args, companies, company_idx, success_count>>
    /\ UNCHANGED extractorVars
    /\ UNCHANGED engineVars

\* main after the loop (lines 302-311), without --visualize
FinalResults ==
    /\ step = "results"
    /\ stdout' = stdout \o
          <<[step |-> "results", n |-> success_count, of |-> Len(companies)],
            [step |-> "exit",
             code |-> IF success_count = Len(companies) THEN 0 ELSE 1]>>
    /\ step' = "exit"
    /\ UNCHANGED <<args, companies, company_idx, success_count, data_dir>>
    /\ UNCHANGED extractorVars
    /\ UNCHANGED engineVars

NextPipeline ==
    \/ Main
    \/ NextCompany
    \/ ValidateCompany
    \/ RunExtraction
    \/ SkipExtraction
    \/ RunNormalization
    \/ GenerateReport
    \/ KeyboardInterrupt
    \/ FinalResults

SpecPipeline == InitPipeline /\ [][NextPipeline]_vars

\* ------------------------------------------------------------------------
\* Properties of the extractor
\* ------------------------------------------------------------------------
\* the last call was extract_field on a configured field of a readable document
FieldCall ==
    /\ ret.op = "extract_field"
    /\ ret.field \in DOMAIN config
    /\ pdf_files[ret.path] # Unreadable
CallConfig == config[ret.field]
CallText == pdf_files[ret.path].s

IsSingle(fc) == Has(fc, "pattern")
IsMulti(fc) == ~Has(fc, "pattern") /\ Has(fc, "patterns")
ModeOf(fc) == Get(fc, "mode", "first")
EntryPattern(e) == IF IsStrEntry(e) THEN e ELSE Get(e, "pattern", EmptyStr)
EntryGroup(e) == IF IsStrEntry(e) THEN Num(1) ELSE Get(e, "group", Num(1))

Min(S) == CHOOSE x \in S : \A y \in S : x <= y

\* what single-pattern extraction gives for each entry of a pattern list
SingleOutcomes(text, ps) ==
    [k \in 1..Len(ps) |-> extract_single_pattern(text, EntryPattern(ps[k]), EntryGroup(ps[k]))]

FirstModeCall == FieldCall /\ IsMulti(CallConfig) /\ ModeOf(CallConfig) = "first"

\* C1 as stated: in mode "first" the result is never a list and is the
\* single-pattern result of the first entry (of those with a non-empty
\* pattern) whose single-pattern result is non-null, null when there is none.
C1_FirstNonNull ==
    FirstModeCall =>
        LET ps == CallConfig.patterns
            outs == SingleOutcomes(CallText, ps)
            hits == {k \in DOMAIN outs : EntryPattern(ps[k]) # EmptyStr /\ outs[k] # Null}
        IN /\ ret.out.t # "list"
           /\ ret.out = IF hits = {} THEN Null ELSE outs[Min(hits)]

\* C1 amended: in mode "first" (or no mode) the result is never a list and is
\* the outcome of the first entry, in list order, that has a non-empty
\* pattern and whose single-pattern extraction gives something other than
\* null and the empty string; it is null when there is no such entry.
C1_FirstNonEmpty ==
    FirstModeCall =>
        LET ps == CallConfig.patterns
            outs == SingleOutcomes(CallText, ps)
            hits == {k \in DOMAIN outs :
                        /\ EntryPattern(ps[k]) # EmptyStr
                        /\ outs[k] # Null
                        /\ outs[k] # Str(<<>>)}
        IN /\ ret.out.t # "list"
           /\ ret.out = IF hits = {} THEN Null ELSE outs[Min(hits)]

\* a "first" call where an earlier entry gave the empty string and a later
\* entry gave the result
C1_Witness ==
    /\ FirstModeCall
    /\ ret.out.t = "str" /\ ret.out.s # <<>>
    /\ LET outs == SingleOutcomes(CallText, CallConfig.patterns)
       IN \E j, k \in DOMAIN outs : j < k /\ outs[j] = Str(<<>>) /\ outs[k] = ret.out

AllModeCall == FieldCall /\ IsMulti(CallConfig) /\ ModeOf(CallConfig) = "all"

\* what extract_all_matches gives for each entry of a pattern list
AllOutcomes(text, ps) ==
    [k \in 1..Len(ps) |-> extract_all_matches(text, EntryPattern(ps[k]), EntryGroup(ps[k]))]

RECURSIVE Flatten(_, _)
Flatten(outs, k) == IF k > Len(outs) THEN <<>> ELSE outs[k].l \o Flatten(outs, k + 1)

\* C2: in mode "all" the result is the concatenation, in pattern-list order,
\* of extract_all_matches of each entry with that entry's group (the error of
\* the first entry for which extract_all_matches raises one), and it is null
\* when that concatenation is empty, never the empty list.
C2_AllConcat ==
    AllModeCall =>
        LET outs == AllOutcomes(CallText, CallConfig.patterns)
            raising == {k \in DOMAIN outs : IsRaise(outs[k])}
        IN /\ ret.out # List(<<>>)
           /\ ret.out = IF raising # {} THEN outs[Min(raising)]
                        ELSE IF Flatten(outs, 1) = <<>> THEN Null
                        ELSE List(Flatten(outs, 1))

\* an "all" call whose result joins the matches of two entries, the second
\* entry's after the first entry's
C2_Witness ==
    /\ AllModeCall
    /\ ret.out.t = "list"
    /\ LET outs == AllOutcomes(CallText, CallConfig.patterns)
       IN /\ Len(outs) = 2
          /\ outs[1].t = "list" /\ outs[1].l # <<>>
          /\ outs[2].t = "list" /\ outs[2].l # <<>>
          /\ outs[1] # outs[2]

HasEdgeSpace(s) == s # <<>> /\ (s[1] \in Whitespace \/ s[Len(s)] \in Whitespace)

SingleIntCall ==
    /\ FieldCall
    /\ IsSingle(CallConfig)
    /\ IsIntGroup(Get(CallConfig, "group", Num(1)))

\* C3: with a single-pattern config and an integer group, extract_field gives
\* null or a string without leading or trailing whitespace, and it gives null
\* when the text has no match, when the group index exceeds the number of
\* groups and when the group took no part in the match.
C3_NullOrTrimmed ==
    SingleIntCall =>
        LET g == Get(CallConfig, "group", Num(1)).n
            m == re_search(CallConfig.pattern, CallText, TRUE)
        IN /\ \/ ret.out = Null
              \/ ret.out.t = "str" /\ ~HasEdgeSpace(ret.out.s)
           /\ (IsRaise(m) \/ m = NoMatch) => ret.out = Null
           /\ (~IsRaise(m) /\ m # NoMatch /\ g > NumGroups(m)) => ret.out = Null
           /\ (~IsRaise(m) /\ m # NoMatch /\ g \in 1..NumGroups(m) /\ m.groups[g] = Null)
                => ret.out = Null

\* the configured group is "all": in a single-pattern config, or in every
\* entry of a pattern list
GroupAllCall ==
    /\ FieldCall
    /\ \/ IsSingle(CallConfig) /\ Get(CallConfig, "group", Num(1)) = GroupAll
       \/ /\ IsMulti(CallConfig)
          /\ CallConfig.patterns # <<>>
          /\ \A k \in DOMAIN CallConfig.patterns :
                /\ EntryPattern(CallConfig.patterns[k]) # EmptyStr
                /\ EntryGroup(CallConfig.patterns[k]) = GroupAll

\* the matches of the configured pattern in the text, none when it does not compile
MatchesOf(pattern, text) ==
    IF pattern.ok THEN re_finditer(pattern, text, TRUE).l ELSE <<>>

\* C4 as stated: wherever group "all" is configured the result is a list
\* whose elements are trimmed full-match texts, never a scalar and never null.
C4_AlwaysList ==
    GroupAllCall =>
        /\ ret.out.t = "list"
        /\ \A i \in DOMAIN ret.out.l :
              \E p \in {EntryPattern(e) : e \in
                          IF IsSingle(CallConfig) THEN {CallConfig.pattern}
                          ELSE {CallConfig.patterns[k] : k \in DOMAIN CallConfig.patterns}} :
                 \E j \in DOMAIN MatchesOf(p, CallText) :
                    ret.out.l[i] = Str(Strip(MatchesOf(p, CallText)[j].group0))

SingleAllCall ==
    FieldCall /\ IsSingle(CallConfig) /\ Get(CallConfig, "group", Num(1)) = GroupAll

\* C4 amended: for a single-pattern config with group "all" the result is
\* always a list, never a scalar and never null: the trimmed full-match texts
\* of the matches in match order, those that are empty left out; it is the
\* empty list when nothing matches or the pattern does not compile.
C4_SingleAllList ==
    SingleAllCall =>
        LET ms == MatchesOf(CallConfig.pattern, CallText)
            trimmed == [j \in DOMAIN ms |-> Str(Strip(ms[j].group0))]
        IN /\ ret.out.t = "list"
           /\ ret.out.l = SelectSeq(trimmed, LAMBDA v : v # Str(<<>>))

\* a group "all" call on a text with two matches, and one where the pattern
\* does not compile, are both reached; this one is the first
C4_Witness ==
    /\ SingleAllCall
    /\ ret.out.t = "list"
    /\ Len(ret.out.l) = 2
    /\ Len(MatchesOf(CallConfig.pattern, CallText)) = 2

IsBad(pattern) == ~pattern.ok
WithoutBad(fc) ==
    [fc EXCEPT !.patterns = SelectSeq(fc.patterns, LAMBDA e : ~IsBad(EntryPattern(e)))]

\* what a field gives once the entries that do not compile are taken out
SoftResult(text, fc) ==
    IF DOMAIN fc = {} THEN Null
    ELSE IF IsSingle(fc)
    THEN (IF IsBad(fc.pattern)
          THEN (IF Get(fc, "group", Num(1)) = GroupAll THEN List(<<>>) ELSE Null)
          ELSE extract_from_text(text, fc))
    ELSE IF IsMulti(fc) THEN extract_from_text(text, WithoutBad(fc))
    ELSE Null

UsesBad(fc) ==
    \/ IsSingle(fc) /\ IsBad(fc.pattern)
    \/ IsMulti(fc) /\ \E k \in DOMAIN fc.patterns : IsBad(EntryPattern(fc.patterns[k]))

\* C5: a pattern that does not compile is never fatal: no call ends in
\* re.error; extract_field on a field with such a pattern gives null (the
\* empty list for group "all") in single-pattern mode and, in multi-pattern
\* mode, what the other entries of the list give; extract_all_fields on a
\* readable document gives every configured field the result it has without
\* the entries that do not compile.
C5_BadPatternNotFatal ==
    /\ ret.op # "none" => ret.out # Raise("re.error")
    /\ (FieldCall /\ UsesBad(CallConfig)) => ret.out = SoftResult(CallText, CallConfig)
    /\ (ret.op = "extract_all_fields" /\ pdf_files[ret.path] # Unreadable) =>
          LET text == pdf_files[ret.path].s
              keys == ConfigKeys(config)
              raising == {k \in DOMAIN keys : IsRaise(SoftResult(text, config[keys[k]]))}
          IN IF raising # {} THEN ret.out = SoftResult(text, config[keys[Min(raising)]])
             ELSE /\ ret.out.t = "dict"
                  /\ DOMAIN ret.out.d = DOMAIN config
                  /\ \A f \in DOMAIN config : ret.out.d[f] = SoftResult(text, config[f])

\* extract_all_fields gave a value to a field configured next to a field
\* whose pattern does not compile
C5_Witness ==
    /\ ret.op = "extract_all_fields"
    /\ ret.out.t = "dict"
    /\ \E f, g \in DOMAIN config :
          /\ f # g
          /\ UsesBad(config[f])
          /\ ~UsesBad(config[g])
          /\ ret.out.d[g].t = "str"


\* ------------------------------------------------------------------------
\* Properties of the mapping engine
\* ------------------------------------------------------------------------
\* the entry of a field under field_mappings of the loaded configuration
HasMapping(f) == Has(map_config, "field_mappings") /\ f \in DOMAIN map_config.field_mappings
FieldMapping(f) == IF HasMapping(f) THEN map_config.field_mappings[f] ELSE EmptyDict

\* the fields of the input file process_file has finished with
DoneFields ==
    IF pc \in {"loop", "docs", "done"}
    THEN {RawKeys(raw_data)[i] : i \in 1..(field_idx - 1)}
    ELSE {}

\* the error list of the run, and of the written file
ErrorFields(errors) == {errors[i].field : i \in DOMAIN errors}
WrittenStats == output_file["_mapping_metadata"].processing_stats

\* the documents of a field whose mapping raises, and the first of them
RaisingDocs(f) ==
    {i \in DOMAIN DocKeys(raw_data[f]) :
        IsRaise(_map_field(map_config, f, raw_data[f][DocKeys(raw_data[f])[i]]))}
MappingRaises(f) == IsDict(raw_data[f]) /\ RaisingDocs(f) # {}
FirstRaise(f) ==
    _map_field(map_config, f, raw_data[f][DocKeys(raw_data[f])[Min(RaisingDocs(f))]])

\* the fields that come after f in the input file
FieldsAfter(f) ==
    {g \in DOMAIN raw_data :
        \E i, j \in DOMAIN RawKeys(raw_data) :
            i < j /\ RawKeys(raw_data)[i] = f /\ RawKeys(raw_data)[j] = g}

\* what a field whose documents all map is written as
AllMapped(g) == [d \in DOMAIN raw_data[g] |-> _map_field(map_config, g, raw_data[g][d])]

\* C6: a run of process_file is given up only when the input file cannot be
\* loaded; when the mapping of a document value of a field raises, the written
\* output holds the field's original data, the error list holds the field's
\* error with the exception of the first document that raised, every field of
\* the input was counted, and every later field is written: mapped when
\* all its documents map, as it was when one of them raises.
C6_FieldErrorIsolated ==
    /\ pc = "failed" => raw_data = Unreadable
    /\ pc = "done" =>
          \A f \in DOMAIN raw_data :
             MappingRaises(f) =>
                /\ f \in DOMAIN output_file
                /\ output_file[f] = raw_data[f]
                /\ \E i \in DOMAIN WrittenStats.errors :
                      WrittenStats.errors[i] = [field |-> f, exc |-> FirstRaise(f).exc]
                /\ WrittenStats.total_fields = Cardinality(DOMAIN raw_data)
                /\ \A g \in FieldsAfter(f) :
                      /\ g \in DOMAIN output_file
                      /\ g \in ErrorFields(WrittenStats.errors)
                            <=> (~IsDict(raw_data[g]) \/ MappingRaises(g))
                      /\ output_file[g] = IF g \in ErrorFields(WrittenStats.errors)
                                          THEN raw_data[g]
                                          ELSE AllMapped(g)

\* a finished run in which a field raised on its second document, after its
\* first document had mapped to something else, and the field after it was
\* mapped to new values
C6_Witness ==
    /\ pc = "done"
    /\ \E f \in DOMAIN raw_data :
          /\ MappingRaises(f)
          /\ Min(RaisingDocs(f)) > 1
          /\ ~IsRaise(_map_field(map_config, f, raw_data[f][DocKeys(raw_data[f])[1]]))
          /\ _map_field(map_config, f, raw_data[f][DocKeys(raw_data[f])[1]])
                # raw_data[f][DocKeys(raw_data[f])[1]]
          /\ output_file[f] = raw_data[f]
          /\ \E g \in FieldsAfter(f) :
                /\ g \notin ErrorFields(WrittenStats.errors)
                /\ output_file[g] # raw_data[g]

\* C7: the written output holds exactly the fields of the input file and the
\* metadata block, so no field that only the configuration names; a field
\* of the input without an entry under field_mappings is written as it was,
\* document by document.
C7_RawFieldsPassThrough ==
    pc = "done" =>
       /\ DOMAIN output_file = DOMAIN raw_data \cup {"_mapping_metadata"}
       /\ \A f \in DOMAIN raw_data :
             ~HasMapping(f) => output_file[f] = raw_data[f]

\* a finished run under a configuration that names a field the input lacks,
\* on an input with an unmapped field holding a null and a list
C7_Witness ==
    /\ pc = "done"
    /\ Has(map_config, "field_mappings")
    /\ \E c \in DOMAIN map_config.field_mappings : c \notin DOMAIN raw_data
    /\ \E f \in DOMAIN raw_data :
          /\ ~HasMapping(f)
          /\ IsDict(raw_data[f])
          /\ \E d, e \in DOMAIN raw_data[f] :
                /\ raw_data[f][d] = Null
                /\ raw_data[f][e].t = "list"
          /\ output_file[f] = raw_data[f]

\* the five mapping types
KnownTypes ==
    {"fixed_value", "pattern_to_value", "extract_normalize", "amount_normalization",
     "numeric_conversion"}

\* the field has a mapping entry whose type is none of the five
UnknownType(f) ==
    /\ Has(FieldMapping(f), "type")
    /\ FieldMapping(f).type \notin KnownTypes

\* C8: under a mapping entry whose type is none of the five, _map_field
\* returns the value it was given; a field of the input file with such an
\* entry leaves no error, is stored with every document unchanged, and the
\* count of mapped fields is the count of finished fields without an error.
C8_UnknownTypePassThrough ==
    /\ (ret.op = "map_field" /\ UnknownType(ret.field)) => ret.out = ret.arg
    /\ \A f \in DoneFields :
          (UnknownType(f) /\ IsDict(raw_data[f])) =>
             /\ f \notin ErrorFields(stats.errors)
             /\ mapped_data[f] = raw_data[f]
    /\ pc \in {"loop", "docs", "done"} =>
          stats.mapped_fields = Cardinality(DoneFields \ ErrorFields(stats.errors))

\* a finished field with an entry of unknown type, holding a null, a scalar
\* and a list among its documents, with the last call made for it
C8_Witness ==
    /\ pc = "loop"
    /\ ret.op = "map_field"
    /\ UnknownType(ret.field)
    /\ ret.field \in DoneFields
    /\ stats.mapped_fields >= 1
    /\ {raw_data[ret.field][d] : d \in DOMAIN raw_data[ret.field]} \in
          {{Null, Str(<<"b">>)}, {Null, List(<<Str(<<"b">>), Str(<<"1", "2">>)>>)},
           {Str(<<"b">>), List(<<Str(<<"b">>), Str(<<"1", "2">>)>>)}}

NullPatternCall ==
    /\ ret.op = "map_field"
    /\ ret.arg = Null
    /\ Has(FieldMapping(ret.field), "type")
    /\ FieldMapping(ret.field).type = "pattern_to_value"

\* the rules of a pattern_to_value entry that stand for a null value
NullRules(fc) ==
    {k \in DOMAIN Mappings(fc) :
        \/ ~Has(Mappings(fc)[k], "input_pattern")
        \/ Mappings(fc)[k].input_pattern = Null
        \/ Mappings(fc)[k].input_pattern = Str(NullStr)}

\* C10: on a null value a pattern_to_value entry gives the output of its
\* first rule whose input_pattern is null, absent or the string "null"
\* (KeyError when that rule has no output), and without such a rule the
\* default of the entry, null when it has none.
C10_NullValueRule ==
    NullPatternCall =>
       LET fc == FieldMapping(ret.field)
       IN IF NullRules(fc) = {}
          THEN ret.out = (IF Has(fc, "default") THEN fc.default ELSE Null)
          ELSE LET rule == Mappings(fc)[Min(NullRules(fc))]
               IN ret.out = (IF Has(rule, "output") THEN rule.output ELSE Raise("KeyError"))

\* a null value mapped by a "null" rule that comes after a rule of another
\* pattern
C10_Witness ==
    /\ NullPatternCall
    /\ Min(NullRules(FieldMapping(ret.field)) \cup {9}) = 2
    /\ Get(Mappings(FieldMapping(ret.field))[2], "input_pattern", Null) = Str(NullStr)
    /\ ret.out = Str(<<"N">>)

\* a null value under an entry without a rule for null returns the default
C10_WitnessDefault ==
    /\ NullPatternCall
    /\ Len(Mappings(FieldMapping(ret.field))) = 2
    /\ NullRules(FieldMapping(ret.field)) = {}
    /\ ret.out = Str(<<"d">>)


\* the last call was _map_field under a pattern_to_value entry
PatternCall ==
    /\ ret.op = "map_field"
    /\ Has(FieldMapping(ret.field), "type")
    /\ FieldMapping(ret.field).type = "pattern_to_value"

\* the default of an entry, null when it has none
ConfiguredDefault(fc) == IF Has(fc, "default") THEN fc.default ELSE Null

\* the elements of a list whose mapped result is not the default of the entry
NonDefaultItems(l, fc) ==
    {i \in DOMAIN l : _apply_pattern_mapping(l[i], fc) # ConfiguredDefault(fc)}

\* C11: on a list a pattern_to_value entry gives the mapped result of the
\* first element whose result is not the default of the entry (null when
\* none is configured), and the default when every element maps to it.
C11_ListFirstNonDefault ==
    (PatternCall /\ ret.arg.t = "list") =>
       LET fc == FieldMapping(ret.field)
           hits == NonDefaultItems(ret.arg.l, fc)
       IN ret.out = IF hits = {} THEN ConfiguredDefault(fc)
                    ELSE _apply_pattern_mapping(ret.arg.l[Min(hits)], fc)

\* a is a substring of b, letter case aside
IsSubstring(a, b) ==
    \E i \in 0..(Len(b) - Len(a)) : LowerStr(SubSeq(b, i + 1, i + Len(a))) = LowerStr(a)

\* the pattern is within the value once whitespace runs are single spaces, or
\* once all whitespace is taken out of both
SubstringMatch(pattern, value_str) ==
    \/ IsSubstring(CollapseWs(pattern), CollapseWs(value_str))
    \/ IsSubstring(RemoveWs(pattern), RemoveWs(value_str))

\* the last call was _map_field under a pattern_to_value entry on a non-empty
\* scalar
ScalarPatternCall ==
    /\ PatternCall
    /\ ret.arg.t = "str"
    /\ ret.arg.s # <<>>

\* the rules of an entry whose input_pattern is a string within the value
SubstringRules(fc, value_str) ==
    {k \in DOMAIN Mappings(fc) :
        /\ Mappings(fc)[k].input_pattern # Null
        /\ SubstringMatch(Mappings(fc)[k].input_pattern.s, value_str)}

\* C12 as stated: a non-empty scalar gives the output of the first rule whose
\* input_pattern is within the value, and the default of the entry (null when
\* none is configured) when there is no such rule.
C12_FirstSubstringRule ==
    ScalarPatternCall =>
       LET fc == FieldMapping(ret.field)
           hits == SubstringRules(fc, ret.arg.s)
       IN ret.out = IF hits = {} THEN ConfiguredDefault(fc)
                    ELSE Mappings(fc)[Min(hits)].output

\* C12: a non-empty scalar gives the output of the first rule whose
\* input_pattern is a non-empty string within the value; without such a rule
\* it gives the default of the entry, and the value itself when the entry has
\* no default.
C12_FirstNonEmptySubstringRule ==
    ScalarPatternCall =>
       LET fc == FieldMapping(ret.field)
           hits == {k \in SubstringRules(fc, ret.arg.s) :
                        Mappings(fc)[k].input_pattern.s # <<>>}
       IN ret.out = IF hits = {} THEN (IF Has(fc, "default") THEN fc.default ELSE ret.arg)
                    ELSE Mappings(fc)[Min(hits)].output

\* a value with its words apart mapped by the second rule, whose pattern has
\* them joined and in other letter case, after a rule with an empty pattern
C12_Witness ==
    /\ ScalarPatternCall
    /\ ret.arg = Str(<<" ", "a", " ", "\n", "b", " ">>)
    /\ Len(Mappings(FieldMapping(ret.field))) = 2
    /\ Mappings(FieldMapping(ret.field))[1].input_pattern = Str(<<>>)
    /\ Mappings(FieldMapping(ret.field))[2].input_pattern = Str(<<"A", " ", "b">>)
    /\ ret.out = Str(<<"A", "B">>)


\* the last call was _map_field under a numeric_conversion entry
NumericCall ==
    /\ ret.op = "map_field"
    /\ Has(FieldMapping(ret.field), "type")
    /\ FieldMapping(ret.field).type = "numeric_conversion"

\* what an element converts to under the entry, null when it does not convert
ElementNumber(e, fc) ==
    numeric_conversion_scalar(e, [k \in DOMAIN fc \ {"default"} |-> fc[k]])

\* C13: on a list a numeric_conversion entry gives the number of the first
\* element that converts, and the default of the entry (null without one)
\* only when no element converts.
C13_ListFirstConvertible ==
    (NumericCall /\ ret.arg.t = "list") =>
       LET fc == FieldMapping(ret.field)
           hits == {i \in DOMAIN ret.arg.l : ElementNumber(ret.arg.l[i], fc) # Null}
       IN ret.out = IF hits = {} THEN ConfiguredDefault(fc)
                    ELSE ElementNumber(ret.arg.l[Min(hits)], fc)

\* the rules of an entry whose trimmed input_pattern is the trimmed input
EqualRules(fc, value_str) ==
    {k \in DOMAIN Mappings(fc) : Strip(Mappings(fc)[k].input_pattern.s) = Strip(value_str)}

\* the last call was _map_field under a numeric_conversion entry on a
\* non-empty string
ScalarNumericCall ==
    /\ NumericCall
    /\ ret.arg.t = "str"
    /\ ret.arg.s # <<>>

Max(S) == CHOOSE x \in S : \A y \in S : y <= x

\* the part of s before its last c, and the part after it
BeforeLast(s, c) == SubSeq(s, 1, Max({i \in DOMAIN s : s[i] = c}) - 1)
AfterLast(s, c) == SubSeq(s, Max({i \in DOMAIN s : s[i] = c}) + 1, Len(s))

\* the last call converted a string with a comma and without a currency
\* suffix, which no rule names, to an integer in the Turkish format
TurkishIntegerCall ==
    /\ ScalarNumericCall
    /\ Get(FieldMapping(ret.field), "turkish_format", Null) = Bool(TRUE)
    /\ Get(FieldMapping(ret.field), "output_type", "integer") = "integer"
    /\ EqualRules(FieldMapping(ret.field), ret.arg.s) = {}
    /\ Contains(ret.arg.s, ",")
    /\ \A i \in DOMAIN ret.arg.s : ret.arg.s[i] \notin {"L", "-"}

\* C15: in the Turkish format with an integer output type, a value with a
\* comma gives the integer written by the digits before the last comma, the
\* '.' between them left out, when that part and the part after the comma
\* are digits only, and the default of the entry (null without one) otherwise.
C15_TurkishIntegerTruncates ==
    TurkishIntegerCall =>
       LET cleaned == Strip(ret.arg.s)
           integer_part == RemoveChar(BeforeLast(cleaned, ","), ".")
           decimal_part == AfterLast(cleaned, ",")
       IN ret.out = IF IsDigitStr(integer_part) /\ IsDigitStr(decimal_part)
                    THEN Num(DigitsToInt(integer_part))
                    ELSE ConfiguredDefault(FieldMapping(ret.field))

\* "2.500.000,75" converted to 2500000
C15_Witness ==
    /\ TurkishIntegerCall
    /\ ret.arg = Str(<<"2", ".", "5", "0", "0", ".", "0", "0", "0", ",", "7", "5">>)
    /\ ret.out = Num(2500000)

\* the last call converted a string of digits and one kind of separator, which
\* no rule names, with turkish_format unset
AutoDetectCall ==
    /\ ScalarNumericCall
    /\ ~Has(FieldMapping(ret.field), "turkish_format")
    /\ EqualRules(FieldMapping(ret.field), ret.arg.s) = {}
    /\ \E sep \in {".", ","} :
          /\ Contains(ret.arg.s, sep)
          /\ \A i \in DOMAIN ret.arg.s : ret.arg.s[i] \in Digits \cup {sep}
          /\ ret.arg.s[1] \in Digits
          /\ ret.arg.s[Len(ret.arg.s)] \in Digits

\* C16: with turkish_format unset, a number with '.' and no ',' or with ','
\* and no '.' is read with its separator as the thousands separator: it gives
\* the number its digits write ("1.234" and "1,234" give 1234).
C16_SingleSeparatorIsThousands ==
    AutoDetectCall =>
       LET digits == RemoveChar(RemoveChar(ret.arg.s, "."), ",")
       IN ret.out = IF Get(FieldMapping(ret.field), "output_type", "integer") = "float"
                    THEN Float(DigitsToInt(digits), 0)
                    ELSE Num(DigitsToInt(digits))


\* the last call was _map_field under an amount_normalization entry
AmountCall ==
    /\ ret.op = "map_field"
    /\ Has(FieldMapping(ret.field), "type")
    /\ FieldMapping(ret.field).type = "amount_normalization"

\* the rules of an entry that match the value and hold an output or one of
\* the two transforms
DecidingRules(fc, value_str) ==
    {k \in DOMAIN Mappings(fc) :
        /\ re_search(Mappings(fc)[k].pattern, value_str, FALSE) # NoMatch
        /\ \/ Has(Mappings(fc)[k], "output")
           \/ Mappings(fc)[k].transform \in {"format_turkish_amount", "format_simple_amount"}}

\* s without the ending it may have
WithoutEnding(s, ending) ==
    IF EndsWith(s, ending) THEN SubSeq(s, 1, Len(s) - Len(ending)) ELSE s

\* an amount in the Turkish layout: ",00" off its end, '.' turned to ',', one
\* space before and one after
TurkishAmount(g) ==
    Str(<<" ">> \o ReplaceChar(WithoutEnding(g, <<",", "0", "0">>), ".", ",") \o <<" ">>)

\* capture group 1 of the first match of the rule in the value, "" when the
\* group took no part in the match
GroupOne(rule, value_str) ==
    LET g == MatchGroup(re_search(rule.pattern, value_str, FALSE), 1)
    IN IF g = Null THEN Str(<<>>) ELSE g

\* C17 as stated: the first rule that matches decides; with a literal output
\* it gives that output, and with format_turkish_amount it gives capture
\* group 1 in the Turkish layout, between two spaces.
C17_TurkishAmountAlwaysSpaced ==
    (AmountCall /\ Truthy(ret.arg)) =>
       LET fc == FieldMapping(ret.field)
           hits == DecidingRules(fc, PyStr(ret.arg))
           rule == Mappings(fc)[Min(hits)]
       IN hits # {} =>
             IF Has(rule, "output") THEN ret.out = rule.output
             ELSE (rule.transform = "format_turkish_amount"
                   /\ NumGroups(re_search(rule.pattern, PyStr(ret.arg), FALSE)) >= 1)
                     => ret.out = TurkishAmount(GroupOne(rule, PyStr(ret.arg)).s)

\* C17: the first rule that matches and holds an output or a known transform
\* decides; with a literal output it gives that output, and with
\* format_turkish_amount it gives capture group 1 in the Turkish layout
\* between two spaces, or the empty string when the group is empty or took
\* no part in the match.
C17_TurkishAmount ==
    (AmountCall /\ Truthy(ret.arg)) =>
       LET fc == FieldMapping(ret.field)
           hits == DecidingRules(fc, PyStr(ret.arg))
           rule == Mappings(fc)[Min(hits)]
       IN hits # {} =>
             IF Has(rule, "output") THEN ret.out = rule.output
             ELSE (rule.transform = "format_turkish_amount"
                   /\ NumGroups(re_search(rule.pattern, PyStr(ret.arg), FALSE)) >= 1)
                     => ret.out = IF GroupOne(rule, PyStr(ret.arg)) = Str(<<>>)
                                  THEN Str(<<>>)
                                  ELSE TurkishAmount(GroupOne(rule, PyStr(ret.arg)).s)

\* "1.234,00" normalized to " 1,234 " by the second rule, after a rule with
\* an unknown transform that matches too
C17_Witness ==
    /\ AmountCall
    /\ ret.arg = Str(<<"1", ".", "2", "3", "4", ",", "0", "0">>)
    /\ Len(Mappings(FieldMapping(ret.field))) = 2
    /\ Mappings(FieldMapping(ret.field))[1].transform = "format_other"
    /\ Mappings(FieldMapping(ret.field))[2] =
          [pattern |-> R_amount, transform |-> "format_turkish_amount"]
    /\ ret.out = Str(<<" ", "1", ",", "2", "3", "4", " ">>)


\* ---------------------------------------------- properties of the text cache

\* the text a call for pdf_path works on when the path is cached
CachedCall(op) == ret'.op = op /\ ret'.path \in DOMAIN _pdf_cache

\* C18: the cache only grows: no step removes or replaces an entry, so a path
\* is decoded successfully at most once, and a call for a cached path works on
\* the cached text whatever the document on disk has become
C18_CacheOnlyGrows ==
    [][/\ \A p \in DOMAIN _pdf_cache :
             p \in DOMAIN _pdf_cache' /\ _pdf_cache'[p] = _pdf_cache[p]
       /\ CachedCall("get_pdf_text") => ret'.out = Str(_pdf_cache[ret'.path])
       /\ (CachedCall("extract_field") /\ DOMAIN config[ret'.field] # {})
             => ret'.out = extract_from_text(_pdf_cache[ret'.path], config[ret'.field])
       /\ (CachedCall("extract_all_fields") /\ ~IsRaise(ret'.out))
             => \A f \in DOMAIN config :
                    DOMAIN config[f] # {}
                        => ret'.out.d[f] = extract_from_text(_pdf_cache[ret'.path], config[f])
      ]_vars

\* a call has returned the cached text of a path whose document on disk is
\* no longer the one that was decoded
C18_Witness ==
    /\ ret.op = "get_pdf_text"
    /\ ret.path \in DOMAIN _pdf_cache
    /\ pdf_files[ret.path] # Str(_pdf_cache[ret.path])
    /\ ret.out = Str(_pdf_cache[ret.path])


\* the call that has just returned had to decode its document: the path was
\* not cached and the call got as far as get_pdf_text
Decodes ==
    /\ ret'.op \in {"get_pdf_text", "extract_field", "extract_all_fields"}
    /\ ret'.path \notin DOMAIN _pdf_cache
    /\ ret'.op = "extract_field" => DOMAIN config[ret'.field] # {}
    /\ ret'.op = "extract_all_fields" => \E f \in DOMAIN config : DOMAIN config[f] # {}

\* C20: a call that has to decode an unreadable document raises RuntimeError
\* to its caller and leaves the cache as it was, without an entry for the
\* path; whenever a path has no entry, failed calls before or not, the next
\* call decodes the document again, and caches it if it has become readable
C20_DecodeFailureRaises ==
    [][Decodes =>
          IF pdf_files[ret'.path] = Unreadable
          THEN /\ ret'.out = Raise("RuntimeError")
               /\ _pdf_cache' = _pdf_cache
          ELSE /\ ret'.path \in DOMAIN _pdf_cache'
               /\ _pdf_cache'[ret'.path] = pdf_files[ret'.path].s
               /\ \A p \in DOMAIN _pdf_cache' : p = ret'.path \/ p \in DOMAIN _pdf_cache
      ]_vars

\* extract_all_fields has raised on an unreadable document while the other
\* document is cached
C20_Witness ==
    /\ ret.op = "extract_all_fields"
    /\ ret.out = Raise("RuntimeError")
    /\ pdf_files[ret.path] = Unreadable
    /\ DOMAIN _pdf_cache = Paths \ {ret.path}


\* ------------------------------------------ properties of corpus extraction

\* the corpus: the PDFs of the directory, and their document ids
Corpus == Glob(pdf_files)
CorpusDocIds == {p.stem : p \in Corpus}

\* the documents whose value for a field is not null
NonNullDocs(field_data) == {d \in DOMAIN field_data : field_data[d] # Null}

\* the statistics are those of the field's values over a corpus of n documents:
\* successful counts the non-null values and success_rate is that count
\* divided by n, times 100 (0 for an empty corpus)
StatsOf(stat, field_data, n) ==
    /\ stat.successful = Cardinality(NonNullDocs(field_data))
    /\ stat.total = n
    /\ IF n = 0 THEN stat.success_rate = Num(0)
       ELSE /\ stat.success_rate.t = "float"
            /\ stat.success_rate.num * n = stat.successful * 100 * stat.success_rate.den

GenerateReturned == ret.op = "generate_all_fields" /\ ~IsRaise(ret.out)
CheckReturned == ret.op = "check_fields" /\ ~IsRaise(ret.out)

\* C19: after corpus extraction the result has every configured field, each
\* field maps every document id of the corpus to what extract_field gives on
\* that document, successful is the number of non-null values and
\* success_rate is successful / totalDocuments * 100; check_fields reports
\* the same figures from the saved result
C19_SuccessCounts ==
    /\ GenerateReturned =>
          /\ DOMAIN ret.out.d = DOMAIN config
          /\ output_file = ret.out.d
          /\ \A f \in DOMAIN config :
                /\ DOMAIN ret.out.d[f] = CorpusDocIds
                /\ \A p \in Corpus :
                      ret.out.d[f][p.stem] =
                          extract_field(config, _pdf_cache, pdf_files, p, f).out
                /\ StatsOf(ret.field_stats[f], ret.out.d[f], Cardinality(Corpus))
    /\ CheckReturned =>
          \A f \in DOMAIN ret.out.d :
              /\ DOMAIN output_file[f] = CorpusDocIds
              /\ StatsOf(ret.out.d[f], output_file[f], Cardinality(Corpus))

\* a field matched in 2 of 3 documents: check_fields reports 2 of 3 and the
\* rate 200/3
C19_Witness ==
    /\ CheckReturned
    /\ Cardinality(Corpus) = 3
    /\ "f1" \in DOMAIN ret.out.d
    /\ ret.out.d["f1"].successful = 2
    /\ ret.out.d["f1"].total = 3
    /\ ret.out.d["f1"].success_rate = Quotient(200, 3)


\* --------------------------------- a matching rule without a numeric output

\* the first rule of the entry whose trimmed input_pattern is the trimmed input
FirstEqualRule(fc, value_str) == Mappings(fc)[Min(EqualRules(fc, value_str))]

\* n in the output type of the entry
InOutputType(n, fc) ==
    IF Get(fc, "output_type", "integer") = "integer" THEN ToInt(n) ELSE ToFloat(n)

\* the input_pattern of a rule read as a Turkish-formatted number
TurkishPattern(rule, fc) ==
    _parse_turkish_number(rule.input_pattern, Get(fc, "output_type", "integer"), Bool(TRUE))

\* the input equals a rule whose output is no number, under turkish_format,
\* and the rule's input_pattern is a Turkish-formatted number
TurkishRuleCall ==
    /\ ScalarNumericCall
    /\ Truthy(Get(FieldMapping(ret.field), "turkish_format", Bool(FALSE)))
    /\ EqualRules(FieldMapping(ret.field), ret.arg.s) # {}
    /\ ~IsNum(FirstEqualRule(FieldMapping(ret.field), ret.arg.s).output)
    /\ TurkishPattern(FirstEqualRule(FieldMapping(ret.field), ret.arg.s),
                      FieldMapping(ret.field)) # Null

\* C22: under turkish_format a matching rule whose output is no number gives
\* its input_pattern, read with '.' as thousands separator and ',' as decimal
\* separator, times the multiplier of the rule, in the output type
C22_TurkishRulePattern ==
    TurkishRuleCall =>
       LET fc == FieldMapping(ret.field)
           rule == FirstEqualRule(fc, ret.arg.s)
       IN ret.out = InOutputType(Mul(TurkishPattern(rule, fc),
                                     Get(rule, "multiplier", Num(1))), fc)


\* ------------------------------------------------------ currency suffixes

CurrencySuffixes == {Suffixes[i] : i \in DOMAIN Suffixes}

\* the entries of the suffix set that s ends with, and the longest of them
EndingsOf(s) == {x \in CurrencySuffixes : EndsWith(s, x)}
LongestEnding(s) == CHOOSE x \in EndingsOf(s) : \A y \in EndingsOf(s) : Len(y) <= Len(x)

\* the trimmed input without the longest suffix it ends with, trimmed again
WithoutLongestEnding(s) ==
    Strip(SubSeq(Strip(s), 1, Len(Strip(s)) - Len(LongestEnding(Strip(s)))))

\* the number in a text from which nothing more is removed, in an explicit
\* format
ParseAsIs(text, fc) ==
    IF fc.turkish_format = Bool(TRUE)
    THEN parse_explicit(text, Get(fc, "output_type", "integer"), ",", ".")
    ELSE parse_explicit(text, Get(fc, "output_type", "integer"), ".", ",")

\* the last call converted a string that ends with a currency suffix and
\* that no rule names, under an explicit format
SuffixCall ==
    /\ ScalarNumericCall
    /\ EqualRules(FieldMapping(ret.field), ret.arg.s) = {}
    /\ EndingsOf(Strip(ret.arg.s)) # {}
    /\ Has(FieldMapping(ret.field), "turkish_format")

\* C26: the parse removes one suffix, the longest entry of the suffix set
\* that the trimmed input ends with, and nothing more: the call gives the
\* number in what is left ("1.000.-TL" is 1000 as "1.000", "5-TL-" is no
\* number as "5-TL"), and the default when that is no number
C26_LongestSuffixOnce ==
    SuffixCall =>
       LET fc == FieldMapping(ret.field)
           number == ParseAsIs(WithoutLongestEnding(ret.arg.s), fc)
       IN ret.out = IF number # Null THEN number ELSE ConfiguredDefault(fc)

\* "1.000.-TL" has come out as 1000 under turkish_format
C26_Witness ==
    /\ SuffixCall
    /\ ret.arg = Str(<<"1", ".", "0", "0", "0", ".", "-", "T", "L">>)
    /\ FieldMapping(ret.field).turkish_format = Bool(TRUE)
    /\ ret.out \in {Num(1000), Float(1000, 0)}


\* ------------------------------------------ one pass instead of two passes

\* the rules of an entry whose non-empty input_pattern is within the value
\* once all whitespace is taken out of both
CompressedRules(fc, value_str) ==
    {k \in DOMAIN Mappings(fc) :
        /\ Mappings(fc)[k].input_pattern # Null
        /\ Mappings(fc)[k].input_pattern.s # <<>>
        /\ IsSubstring(RemoveWs(Mappings(fc)[k].input_pattern.s), RemoveWs(value_str))}

\* what a matcher that only compares pattern and value without whitespace
\* gives on a non-empty string
CompressedOnly(value, fc) ==
    IF CompressedRules(fc, value.s) = {} THEN Get(fc, "default", value)
    ELSE Mappings(fc)[Min(CompressedRules(fc, value.s))].output

\* C30: the two-pass matcher gives on every non-empty string, passed alone or
\* as an element of a list, what the matcher that only compares pattern and
\* value with all whitespace removed gives
C30_CollapsedPassSubsumed ==
    /\ ScalarPatternCall => ret.out = CompressedOnly(ret.arg, FieldMapping(ret.field))
    /\ (PatternCall /\ ret.arg.t = "list") =>
          \A i \in DOMAIN ret.arg.l :
              ret.arg.l[i].s # <<>> =>
                  _apply_pattern_mapping(ret.arg.l[i], FieldMapping(ret.field))
                      = CompressedOnly(ret.arg.l[i], FieldMapping(ret.field))

\* a value whose collapsed form holds the collapsed pattern of its first rule
\* has been mapped by that rule
C30_Witness ==
    /\ ScalarPatternCall
    /\ ret.arg = Str(<<" ", "a", " ", "\n", "b", " ">>)
    /\ Len(Mappings(FieldMapping(ret.field))) >= 1
    /\ Mappings(FieldMapping(ret.field))[1].input_pattern = Str(<<"A", " ", "b">>)
    /\ IsSubstring(CollapseWs(<<"A", " ", "b">>), CollapseWs(Strip(ret.arg.s)))
    /\ ret.out = Str(<<"A", "B">>)


\* ------------------------------------------------ every match of a pattern

\* the last call was test_pattern_on_pdf with a pattern that compiles
AllMatchesCall == ret.op = "test_pattern_on_pdf" /\ ret.pattern.ok

\* the trimmed text of the group of a match, empty when the group index
\* names no group of the pattern or the group took no part in the match
ResolvedText(m, group) ==
    IF group = Num(0) THEN Strip(m.group0)
    ELSE IF IsIntGroup(group) /\ group.n \in 1..Len(m.groups) /\ m.groups[group.n] # Null
    THEN Strip(m.groups[group.n].s)
    ELSE <<>>

\* the surviving matches of a pattern on a text, in match order
Surviving(pattern, text, group) ==
    LET ms == MatchesOf(pattern, text)
        resolved == [j \in DOMAIN ms |-> Str(ResolvedText(ms[j], group))]
    IN SelectSeq(resolved, LAMBDA v : v # Str(<<>>))

\* C24: extract_all_matches gives the list, in match order, of the trimmed
\* group texts of the matches, without the matches whose text is empty or
\* null or whose group index is out of range; it is the empty list, never
\* null, when no match survives
C24_AllSurvivingMatches ==
    AllMatchesCall =>
        ret.out = List(Surviving(ret.pattern, pdf_files[ret.path].s, ret.group))


\* ----------------------------------------------- modes other than "first"

OtherModeCall ==
    FieldCall /\ IsMulti(CallConfig) /\ ModeOf(CallConfig) \notin {"all", "first"}

\* C25: under a mode that is neither "all" nor "first" a pattern list gives,
\* on every text, what it gives under mode "first"
C25_OtherModeAsFirst ==
    OtherModeCall =>
        ret.out = extract_from_text(CallText, Put(CallConfig, "mode", "first"))


\* ----------------------------------------------- extract_normalize on lists

\* the last call was _map_field under an extract_normalize entry on a
\* non-empty list
NormalizeListCall ==
    /\ ret.op = "map_field"
    /\ FieldMapping(ret.field).type = "extract_normalize"
    /\ ret.arg.t = "list"
    /\ ret.arg.l # <<>>

\* the captures collected element by element and pattern by pattern
Collected(data, fc) == extract_loop(data, fc.extract_patterns, 1, 1, <<>>).l

\* the collected values that are digits only, as numbers
NumericCollected(col) ==
    {DigitsToInt(col[k].s) : k \in {x \in DOMAIN col : col[x] # Null /\ IsDigitStr(col[x].s)}}

\* the working value: the maximum of the numeric collected values when there
\* is one, otherwise the first collected value
WorkingValue(col) ==
    IF NumericCollected(col) # {} THEN Str(IntToStr(Max(NumericCollected(col))))
    ELSE col[1]

\* the output of the first rule whose input is the working value, the
\* default (the working value itself without one) when no rule has it
NormalizedAs(working, fc) ==
    LET hits == {k \in DOMAIN fc.mappings : fc.mappings[k].input = working}
    IN IF hits = {} THEN Get(fc, "default", working) ELSE fc.mappings[Min(hits)].output

\* C23: on a list, extract_normalize gives the default when nothing is
\* collected and otherwise the rule output (or default) of the working value,
\* which is the maximum numeric collected value when one exists and the first
\* collected value otherwise
C23_MaxNumericOrFirst ==
    NormalizeListCall =>
       LET fc == FieldMapping(ret.field)
           col == Collected(ret.arg.l, fc)
       IN ret.out = IF col = <<>> \/ WorkingValue(col) = Null
                    THEN Get(fc, "default", Str(<<>>))
                    ELSE NormalizedAs(WorkingValue(col), fc)

\* ------------------------------------------------------------------------
\* The counters and the entries of process_file
\* ------------------------------------------------------------------------
\* the fields the counters of the run account for
Accounted == stats.mapped_fields + Len(stats.errors)

\* the metadata block of the written file
MetadataWritten ==
    /\ "_mapping_metadata" \in DOMAIN output_file
    /\ \E now \in Timestamps :
          output_file["_mapping_metadata"] =
             [company |-> Get(map_config, "company", "unknown"),
              config_version |-> Get(map_config, "version", "1.0"),
              processing_stats |-> stats,
              timestamp |-> now]

\* what holds once the run is over
CountsAtEnd ==
    pc = "done" =>
       /\ stats.total_fields = Cardinality(DOMAIN raw_data)
       /\ Accounted = stats.total_fields
       /\ MetadataWritten

\* C28 as stated: at every point of the field loop, mapped_fields plus the
\* number of recorded errors equals total_fields; at the end total_fields is
\* the number of fields of the input and the written output carries the
\* metadata block with company, config version, the stats and a timestamp.
C28_CountsAtEveryPoint ==
    /\ pc \in {"loop", "docs"} => Accounted = stats.total_fields
    /\ CountsAtEnd

\* C28: between two fields of process_file, mapped_fields plus the number of
\* recorded errors equals total_fields, the number of fields finished so far;
\* while a field is being mapped total_fields already counts it and is one
\* more than that sum; at the end total_fields is the number of fields of
\* the input and the written output carries the metadata block with company,
\* config version, the stats and a timestamp.
C28_CountsBetweenFields ==
    /\ pc = "loop" =>
          /\ Accounted = stats.total_fields
          /\ stats.total_fields = field_idx - 1
    /\ pc = "docs" =>
          /\ Accounted + 1 = stats.total_fields
          /\ stats.total_fields = field_idx
    /\ CountsAtEnd

\* a finished run over two fields, one mapped and one whose mapping raised
C28_Witness ==
    /\ pc = "done"
    /\ stats.mapped_fields = 1
    /\ Len(stats.errors) = 1
    /\ \E f \in DOMAIN raw_data : MappingRaises(f)
    /\ MetadataWritten

\* the entry of a field whose documents are all mapped, or the field as it
\* was in the input
EntryOf(f) ==
    IF IsDict(raw_data[f]) /\ ~MappingRaises(f) THEN AllMapped(f) ELSE raw_data[f]

\* an entry that holds mapped values of some documents next to the unmapped
\* values of others
Mixed(f) ==
    /\ IsDict(raw_data[f])
    /\ IsDict(output_file[f])
    /\ \E d, e \in DOMAIN raw_data[f] \cap DOMAIN output_file[f] :
          /\ IsRaise(_map_field(map_config, f, raw_data[f][e]))
          /\ output_file[f][e] = raw_data[f][e]
          /\ output_file[f][d] # raw_data[f][d]

\* C29: the written output holds, for every field of the input, an entry
\* with the document ids of the field; the entry holds the result of
\* _map_field for every document or, when the mapping of a document of the
\* field raised, the original data of the field, and never mapped values of
\* some documents next to unmapped values of others; no step of the run
\* changes the input data.
C29_EntriesAllOrNothing ==
    /\ [](pc = "done" =>
             \A f \in DOMAIN raw_data :
                /\ f \in DOMAIN output_file
                /\ IsDict(raw_data[f]) =>
                      /\ IsDict(output_file[f])
                      /\ DOMAIN output_file[f] = DOMAIN raw_data[f]
                /\ output_file[f] = EntryOf(f)
                /\ ~Mixed(f))
    /\ [][raw_data' = raw_data]_vars

\* a finished run that wrote a field of two documents as it was, its second
\* document having raised after the first had mapped to a new value, next to
\* a field whose two documents were both mapped
C29_Witness ==
    /\ pc = "done"
    /\ \E f, g \in DOMAIN raw_data :
          /\ IsDict(raw_data[f]) /\ Cardinality(DOMAIN raw_data[f]) = 2
          /\ MappingRaises(f)
          /\ Min(RaisingDocs(f)) = 2
          /\ _map_field(map_config, f, raw_data[f][DocKeys(raw_data[f])[1]])
                # raw_data[f][DocKeys(raw_data[f])[1]]
          /\ output_file[f] = raw_data[f]
          /\ IsDict(raw_data[g]) /\ ~MappingRaises(g)
          /\ output_file[g] = AllMapped(g)
          /\ output_file[g] # raw_data[g]

\* ------------------------------------------------------------------------
\* Properties of the batch pipeline
\* ------------------------------------------------------------------------
\* the positions in stdout of the events of a step of a company
EventsOf(c, names) ==
    {i \in DOMAIN stdout :
        /\ "company" \in DOMAIN stdout[i]
        /\ stdout[i].company = c
        /\ stdout[i].step \in names}

\* the companies of the batch
Batch == {companies[i] : i \in DOMAIN companies}

\* the place of a step in process_company
StepRank(name) ==
    CASE name = "validate" -> 1
      [] name \in {"extract", "skip_extraction"} -> 2
      [] name = "normalize" -> 3
      [] name = "report" -> 4

PipelineSteps == {"validate", "extract", "skip_extraction", "normalize", "report"}

\* the steps of every company were run in the order of process_company, each
\* at most once
StepsInOrder ==
    \A c \in Batch : \A i, j \in EventsOf(c, PipelineSteps) :
        i < j => StepRank(stdout[i].step) < StepRank(stdout[j].step)

\* the runs of the extraction of a company that wrote no output: the
\* configuration was malformed, there were no documents, a document could
\* not be read, or the tool did not run
FailedExtractions(c) ==
    {i \in EventsOf(c, {"extract"}) : stdout[i].cause # "ok"}

\* C27: the steps of process_company run in the order validate, extract,
\* normalize, report; when the extraction of a company fails the pipeline
\* reports the failure and runs neither normalization nor report for the
\* company; normalization runs only after validation passed and extraction
\* succeeded or was skipped on request.
C27_FailedStepAborts ==
    /\ StepsInOrder
    /\ \A c \in Batch :
          /\ \A i \in FailedExtractions(c) :
                /\ ~stdout[i].ok
                /\ EventsOf(c, {"normalize", "report"}) = {}
          /\ EventsOf(c, {"normalize"}) # {} =>
                /\ \E i \in EventsOf(c, {"validate"}) : stdout[i].ok
                /\ \/ \E i \in EventsOf(c, {"extract"}) : stdout[i].cause = "ok"
                   \/ EventsOf(c, {"skip_extraction"}) # {}

\* the positions in stdout where Ctrl-C came
Interrupts == {i \in DOMAIN stdout : stdout[i].step \in {"interrupted", "traceback"}}

\* the companies process_company has returned for, and those it returned
\* True for
Completed(upto) ==
    {c \in Batch : \E i \in EventsOf(c, {"process_company"}) : i <= upto}
Succeeded == {c \in Batch : \E i \in EventsOf(c, {"process_company"}) : stdout[i].ok}

\* the final line of main was printed with the count of the companies that
\* went through
ProgressReported ==
    \E i \in DOMAIN stdout :
        /\ stdout[i].step = "results"
        /\ stdout[i].n = Cardinality(Succeeded)
        /\ stdout[i].of = Len(companies)

\* C21: after Ctrl-C in the company loop the company at hand is completed,
\* no later company is started, the run ends with the count of the companies
\* processed successfully out of the total, and the output files written
\* before the interrupt are as they were.
C21_InterruptStopsCleanly ==
    \A k \in Interrupts :
       /\ \A i \in DOMAIN stdout : i > k => stdout[i].step # "start"
       /\ step = "exit" =>
             /\ ProgressReported
             /\ stdout[k].step = "interrupted" => stdout[k].company \in Completed(Len(stdout))
       /\ stdout[k].step = "interrupted" =>
             \A c \in Batch :
                /\ c \in Completed(k) => data_dir[c] = stdout[k].files[c]
                /\ stdout[k].files[c].output = "new" => data_dir[c].output = "new"
                /\ stdout[k].files[c].mapped = "new" => data_dir[c].mapped = "new"


====
